---- MODULE Spec2Model ----
(***************************************************************************)
(* Model of src/app.py (BlinkitHOTScheduler): the mailbox harvest, the     *)
(* ingestion of spreadsheet files into the ledger tab, and the ledger      *)
(* accessor operations.                                                    *)
(*                                                                         *)
(* Text is a tuple of one-character strings, so that the string operations *)
(* of the code (quote stripping, strip(), suffix tests, concatenation) are *)
(* computed and not assumed.  A table cell is a text, or one of the two    *)
(* missing-value markers of pandas (NaN, None).  A sheet tab is a grid:    *)
(* a sequence of rows, each a sequence of cell texts, the empty text being *)
(* an empty cell.                                                          *)
(***************************************************************************)
EXTENDS Integers, Sequences, FiniteSets, TLC

(***************************************************************************)
(* Bounds of the model.                                                    *)
(***************************************************************************)
MaxFiles == 3
MaxRuns == 2
MaxFaults == 1
MaxRows == 5
MaxSourceRows == 3
MaxEmails == 2
MaxRunFiles == 2
MaxRunEmails == 1
MaxCleanRows == 2
MaxRawRows == 2
MaxRawCells == 3
MaxWalkParts == 2

(***************************************************************************)
(* Program constants.                                                      *)
(***************************************************************************)
\* excel_config['source_file_column']
SourceCol == <<"s","o","u","r","c","e","_","f","i","l","e","_","n","a","m","e">>
\* excel_config['header_row']
HeaderRow == 0
\* the last column of the range "A:Z" of the ledger reads and of the clear
ZCols == 26

(***************************************************************************)
(* Sequences and text.                                                     *)
(***************************************************************************)
Min(a, b) == IF a <= b THEN a ELSE b
Max(a, b) == IF a >= b THEN a ELSE b
Range(s) == {s[i] : i \in 1..Len(s)}
MaxOf(S) == CHOOSE m \in S : \A x \in S : x <= m
MinOf(S) == CHOOSE m \in S : \A x \in S : m <= x

\* The subsequence of s at the indices of the set keep, in order.
Pick(s, keep) ==
  LET F[i \in 0..Len(s)] ==
        IF i = 0 THEN <<>>
        ELSE IF i \in keep THEN Append(F[i - 1], s[i]) ELSE F[i - 1]
  IN F[Len(s)]

NaN == <<"NaN">>
None == <<"None">>
IsNA(c) == c = NaN \/ c = None
NanText == <<"n","a","n">>
NoneText == <<"N","o","n","e">>

\* a replace that takes out the first quote only
StripFirstQuote(t) ==
  LET at == {i \in 1..Len(t) : t[i] = "'"}
  IN IF at = {} THEN t
     ELSE SubSeq(t, 1, MinOf(at) - 1) \o SubSeq(t, MinOf(at) + 1, Len(t))

\* str.replace("'", "")
StripQuotes(t) == SelectSeq(t, LAMBDA ch : ch # "'")

\* the white space of str.strip(), which is that of str.isspace(), in ASCII:
\* the space, tab, newline, carriage return, form feed, vertical tab and the
\* four separators 0x1C to 0x1F (written here as the characters themselves)
WhiteSpace == {" ", "\t", "\n", "\r", "\f", "", "", "", "", ""}

\* str.strip(): leading and trailing white space removed
Strip(t) ==
  LET ink == {i \in 1..Len(t) : t[i] \notin WhiteSpace}
  IN IF ink = {} THEN <<>>
     ELSE SubSeq(t, CHOOSE i \in ink : \A j \in ink : i <= j, MaxOf(ink))

(***************************************************************************)
(* The values API of the sheet store, on a grid.  A grid keeps no trailing *)
(* empty cell in a row and no trailing empty row, which is also how a read *)
(* returns them.                                                           *)
(***************************************************************************)
TrimRow(r) ==
  LET used == {i \in 1..Len(r) : r[i] # <<>>}
  IN IF used = {} THEN <<>> ELSE SubSeq(r, 1, MaxOf(used))

TrimGrid(g) ==
  LET used == {i \in 1..Len(g) : g[i] # <<>>}
  IN IF used = {} THEN <<>> ELSE SubSeq(g, 1, MaxOf(used))

\* values().get(range = "<tab>!<lo>:<hi>") on an existing tab
SheetGet(g, lo, hi) ==
  TrimGrid([i \in 1..Len(g) |-> TrimRow(SubSeq(g[i], lo, Min(hi, Len(g[i]))))])

\* values().clear(range = "<tab>!<lo>:<hi>")
SheetClear(g, lo, hi) ==
  TrimGrid([i \in 1..Len(g) |->
     TrimRow([j \in 1..Len(g[i]) |-> IF lo <= j /\ j <= hi THEN <<>> ELSE g[i][j]])])

\* values().update(range = "<tab>!A1", body = values): the block is written
\* from the first cell; cells outside the block keep their content.
SheetUpdate(g, values) ==
  TrimGrid([i \in 1..Max(Len(g), Len(values)) |->
     LET old == IF i <= Len(g) THEN g[i] ELSE <<>>
         new == IF i <= Len(values) THEN values[i] ELSE <<>>
     IN TrimRow([j \in 1..Max(Len(old), Len(new)) |->
                   IF j <= Len(new) THEN new[j] ELSE old[j]])])

\* an append that puts the rows above the rows of the tab
SheetInsertFirst(g, values) ==
  TrimGrid([i \in 1..Len(values) |-> TrimRow(values[i])] \o g)

\* values().append(range = "<tab>!A:A", insertDataOption = INSERT_ROWS): the
\* rows are added below the last row of the tab.
SheetAppend(g, values) ==
  TrimGrid(g \o [i \in 1..Len(values) |-> TrimRow(values[i])])

(***************************************************************************)
(* pandas.  A DataFrame is its column names, the dtype of each column and  *)
(* its rows.  A number is held as the text Python prints for it; a column  *)
(* is a string column when its dtype is "object".                          *)
(***************************************************************************)
EmptyFrame == [cols |-> <<>>, dtypes |-> <<>>, rows |-> <<>>]

\* DataFrame.empty
IsEmpty(df) == Len(df.cols) = 0 \/ Len(df.rows) = 0

\* DataFrame.drop_duplicates() on the rows: the first occurrence is kept
DropDuplicates(rows) ==
  Pick(rows, {i \in 1..Len(rows) : \A j \in 1..(i - 1) : rows[j] # rows[i]})

\* pd.DataFrame(data, columns = headers) for a list of lists: short rows are
\* padded with None to the longest row, and the call raises when the longest
\* row and the headers differ in length.
NewDataFrame(data, headers) ==
  IF data = <<>>
  THEN [ok |-> TRUE,
        df |-> [cols |-> headers, dtypes |-> [j \in 1..Len(headers) |-> "object"],
                rows |-> <<>>]]
  ELSE LET w == MaxOf({Len(data[i]) : i \in 1..Len(data)})
       IN IF w # Len(headers)
          THEN [ok |-> FALSE, df |-> EmptyFrame]
          ELSE [ok |-> TRUE,
                df |-> [cols |-> headers,
                        dtypes |-> [j \in 1..w |-> "object"],
                        rows |-> [i \in 1..Len(data) |->
                                    [j \in 1..w |-> IF j <= Len(data[i])
                                                    THEN data[i][j] ELSE None]]]]

\* astype(str) of one cell
AsStr(c) == IF c = NaN THEN NanText ELSE IF c = None THEN NoneText ELSE c

\* fillna('').astype(str) of one cell
FillStr(c) == IF IsNA(c) THEN <<>> ELSE c

\* df.fillna('').astype(str).values.tolist()
FrameValues(rows) ==
  [i \in 1..Len(rows) |-> [j \in 1..Len(rows[i]) |-> FillStr(rows[i][j])]]

DupName(df, i) == \E j \in 1..Len(df.cols) : j # i /\ df.cols[j] = df.cols[i]

\* _clean_dataframe raises when df[col] selects more than one column: .str is
\* no attribute of a DataFrame.
CleanRaises(df) ==
  /\ ~IsEmpty(df)
  /\ \/ \E i \in 1..Len(df.cols) : df.dtypes[i] = "object" /\ DupName(df, i)
     \/ Len(df.cols) >= 2 /\ DupName(df, 2)

\* a row filter that compares the cell as it is
BlankKeyUnstripped(c) == IsNA(c) \/ AsStr(c) = <<>> \/ AsStr(c) = NanText

\* the row filter of _clean_dataframe on the cell of the second column
BlankKey(c) == IsNA(c) \/ Strip(AsStr(c)) = <<>> \/ Strip(AsStr(c)) = NanText

\* _clean_dataframe, where it does not raise
CleanDataFrame(df) ==
  IF IsEmpty(df) THEN df
  ELSE LET unq == [i \in 1..Len(df.rows) |->
                     [j \in 1..Len(df.cols) |->
                        IF df.dtypes[j] = "object"
                        THEN StripQuotes(AsStr(df.rows[i][j]))
                        ELSE df.rows[i][j]]]
           key == IF Len(df.cols) >= 2
                  THEN SelectSeq(unq, LAMBDA r : ~BlankKey(r[2]))
                  ELSE unq
       IN [df EXCEPT !.rows = DropDuplicates(key)]

(***************************************************************************)
(* The spreadsheet parser.  The content of a file is what the two decoders *)
(* make of its bytes: std is the outcome of pd.read_excel (a DataFrame, or *)
(* it throws), zip the archive seen by the fallback (unreadable, or its    *)
(* worksheet members in namelist order, each unparsable or a list of rows  *)
(* of cell texts).                                                         *)
(***************************************************************************)
Digits == <<"0","1","2","3","4","5","6","7","8","9">>

\* _try_raw_xml_extraction
TryRawXmlExtraction(zip, header_row) ==
  IF ~zip.ok \/ zip.sheets = <<>> THEN EmptyFrame
  ELSE IF ~zip.sheets[1].ok THEN EmptyFrame
  ELSE LET data == SelectSeq(zip.sheets[1].rows, LAMBDA r : r # <<>>)
       IN IF data = <<>> THEN EmptyFrame
          ELSE LET fr == IF header_row >= 0 /\ Len(data) > header_row
                         THEN NewDataFrame(SubSeq(data, header_row + 2, Len(data)),
                                           data[header_row + 1])
                         ELSE NewDataFrame(data,
                                [j \in 1..MaxOf({Len(data[i]) : i \in 1..Len(data)})
                                   |-> <<Digits[j]>>])
               IN IF fr.ok THEN fr.df ELSE EmptyFrame

\* a parser that goes on without the bytes of the file
ReadWithoutDownload(content, header_row, downloaded) ==
  IF content.std.ok /\ ~CleanRaises(content.std.df)
  THEN CleanDataFrame(content.std.df)
  ELSE LET raw == TryRawXmlExtraction(content.zip, header_row)
       IN IF IsEmpty(raw) \/ CleanRaises(raw) THEN EmptyFrame
          ELSE CleanDataFrame(raw)

\* _read_excel_file; downloaded is whether the download call succeeded
ReadExcelFile(content, header_row, downloaded) ==
  IF ~downloaded THEN EmptyFrame
  ELSE IF content.std.ok /\ ~CleanRaises(content.std.df)
       THEN CleanDataFrame(content.std.df)
       ELSE LET raw == TryRawXmlExtraction(content.zip, header_row)
            IN IF IsEmpty(raw) \/ CleanRaises(raw) THEN EmptyFrame
               ELSE CleanDataFrame(raw)

(***************************************************************************)
(* The ledger accessor, as functions of the rows a read returned.          *)
(***************************************************************************)
\* list.index
IndexOf(s, x) == CHOOSE k \in 1..Len(s) : s[k] = x /\ \A j \in 1..(k - 1) : s[j] # x

\* _get_existing_source_files, after a successful read
ExistingSourceFiles(values, source_file_column) ==
  IF Len(values) <= 1 THEN {}
  ELSE IF source_file_column \notin Range(values[1]) THEN {}
  ELSE LET k == IndexOf(values[1], source_file_column)
       IN {values[i][k] : i \in {n \in 2..Len(values) :
                                   Len(values[n]) >= k /\ values[n][k] # <<>>}}

\* _check_sheet_has_data, after a successful read
CheckSheetHasData(values) == Len(values) > 1

\* df[source_file_column] = file['name']
WithSource(df, source_file_column, name) ==
  IF source_file_column \in Range(df.cols)
  THEN [df EXCEPT
          !.dtypes = [j \in 1..Len(df.cols) |->
                        IF df.cols[j] = source_file_column THEN "object" ELSE df.dtypes[j]],
          !.rows = [i \in 1..Len(df.rows) |->
                      [j \in 1..Len(df.cols) |->
                         IF df.cols[j] = source_file_column THEN name ELSE df.rows[i][j]]]]
  ELSE [cols |-> Append(df.cols, source_file_column),
        dtypes |-> Append(df.dtypes, "object"),
        rows |-> [i \in 1..Len(df.rows) |-> Append(df.rows[i], name)]]

\* a column order that leaves the source file column where the table has it
SourceWhereItIs(df, source_file_column) == [j \in 1..Len(df.cols) |-> j]

\* the column order of _append_to_sheet_with_source: the positions of the
\* other columns, then the position of the source file column
SourceLast(df, source_file_column) ==
  LET others == {j \in 1..Len(df.cols) : df.cols[j] # source_file_column}
      idx == [j \in 1..Len(df.cols) |-> j]
  IN Pick(idx, others) \o Pick(idx, (1..Len(df.cols)) \ others)

\* _append_to_sheet_with_source up to the remote call: whether building the
\* values raised, whether the call is made, and the values it sends
AppendToSheetWithSource(df, source_file_column, include_headers) ==
  IF source_file_column \notin Range(df.cols)
  THEN [raised |-> TRUE, called |-> FALSE, values |-> <<>>, cols |-> <<>>]
  ELSE LET order == SourceLast(df, source_file_column)
           cols == [j \in 1..Len(order) |-> df.cols[order[j]]]
           rows == [i \in 1..Len(df.rows) |->
                      [j \in 1..Len(order) |-> df.rows[i][order[j]]]]
           values == IF include_headers
                     THEN <<cols>> \o FrameValues(rows)
                     ELSE FrameValues(rows)
       IN [raised |-> FALSE, called |-> values # <<>>, values |-> values, cols |-> cols]

\* _remove_duplicates_from_sheet between its read and its writes: whether
\* building the DataFrame raised, the count it returns and the rows it rewrites
RemoveDuplicates(values) ==
  IF Len(values) <= 1
  THEN [raised |-> FALSE, removed |-> 0, all_values |-> <<>>]
  ELSE LET fr == NewDataFrame(Tail(values), values[1])
           kept == DropDuplicates(fr.df.rows)
       IN IF ~fr.ok
          THEN [raised |-> TRUE, removed |-> 0, all_values |-> <<>>]
          ELSE [raised |-> FALSE,
                removed |-> Len(values) - 1 - Len(kept),
                all_values |-> <<values[1]>> \o FrameValues(kept)]

(***************************************************************************)
(* The files of the source folder.                                         *)
(***************************************************************************)
Frame(cols, dtypes, rows) == [cols |-> cols, dtypes |-> dtypes, rows |-> rows]
Decoded(df) == [std |-> [ok |-> TRUE, df |-> df], zip |-> [ok |-> TRUE, sheets |-> <<>>]]
Corrupt(zip) == [std |-> [ok |-> FALSE, df |-> EmptyFrame], zip |-> zip]
Archive(rows) == [ok |-> TRUE, sheets |-> <<[ok |-> TRUE, rows |-> rows]>>]
NoArchive == [ok |-> FALSE, sheets |-> <<>>]

\* two columns; a quote to strip, a duplicate row and a row with a blank key
TwoCols ==
  Decoded(Frame(<< <<"p">>, <<"q">> >>, <<"object", "object">>,
                << << <<"x","'">>, <<"y">> >>,
                   << <<"x">>, <<"y">> >>,
                   << <<"z">>, <<" ">> >> >>))
\* three columns, one of them numeric with a missing value
ThreeCols ==
  Decoded(Frame(<< <<"p">>, <<"q">>, <<"r">> >>, <<"object", "object", "float64">>,
                << << <<"x">>, <<"y">>, NaN >>,
                   << <<"u">>, <<"v">>, <<"7",".","0">> >> >>))
\* a file that has a column with the name of the tracking column
Tracked ==
  Decoded(Frame(<< <<"p">>, SourceCol, <<"q">> >>, <<"object", "object", "object">>,
                << << <<"x">>, <<"o","l","d">>, <<"y">> >> >>))
\* a damaged container whose worksheet member is intact
Damaged == Corrupt(Archive(<< << <<"p">>, <<"q">> >>, << <<"x">>, <<"y">> >> >>))
\* bytes that neither decoder reads
Garbage == Corrupt(NoArchive)
\* not readable by pandas; the first worksheet has its header row and no other
HeaderOnly == Corrupt(Archive(<< << <<"p">>, <<"q">> >> >>))

GRN1 == <<"G","R","N","1">>
GRN2 == <<"G","R","N","2">>
GRN3 == <<"G","R","N","3">>
GRN4 == <<"G","R","N","4">>

File(name, content) == [name |-> name, content |-> content]

\* the files the listing of the source folder is drawn from; GRN1 is the name
\* of two of them, and GRN3 of two
FileCatalog ==
  { File(GRN1, TwoCols), File(GRN1, Damaged), File(GRN2, ThreeCols),
    File(GRN3, Garbage), File(GRN3, HeaderOnly), File(GRN4, Tracked) }

SeqsUpTo(S, n) == UNION {[1..k -> S] : k \in 0..n}

(***************************************************************************)
(* File names, senders and the payload tree of the harvest.                *)
(***************************************************************************)
UpperCase == <<"A","B","C","D","E","F","G","H","I","J","K","L","M","N","O","P","Q","R","S","T","U","V","W","X","Y","Z">>
LowerCase == <<"a","b","c","d","e","f","g","h","i","j","k","l","m","n","o","p","q","r","s","t","u","v","w","x","y","z">>

\* str.lower() on the letters A to Z
Lower(t) ==
  [i \in 1..Len(t) |->
     IF t[i] \in Range(UpperCase)
     THEN LowerCase[CHOOSE k \in 1..Len(UpperCase) : UpperCase[k] = t[i]]
     ELSE t[i]]

\* str.endswith(suffix)
EndsWith(t, suffix) ==
  Len(t) >= Len(suffix) /\ SubSeq(t, Len(t) - Len(suffix) + 1, Len(t)) = suffix

ExcelSuffixes == {<<".","x","l","s">>, <<".","x","l","s","x">>, <<".","x","l","s","m">>}

\* filename.lower().endswith(('.xls', '.xlsx', '.xlsm'))
IsExcelName(filename) == \E suffix \in ExcelSuffixes : EndsWith(Lower(filename), suffix)

\* the characters the pattern [<>:"/\|?*] matches
UnsafeChars == {"<", ">", ":", "\"", "/", "\\", "|", "?", "*"}
NameLimit == 100
BaseLimit == 95

\* _sanitize_filename
SanitizeFilename(filename) ==
  LET cleaned == [i \in 1..Len(filename) |->
                    IF filename[i] \in UnsafeChars THEN "_" ELSE filename[i]]
      dots == {i \in 1..Len(cleaned) : cleaned[i] = "."}
  IN IF Len(cleaned) <= NameLimit THEN cleaned
     ELSE IF dots # {}
          THEN LET d == MaxOf(dots)
                   base_name == SubSeq(cleaned, 1, d - 1)
                   extension == SubSeq(cleaned, d + 1, Len(cleaned))
               IN SubSeq(base_name, 1, Min(BaseLimit, Len(base_name)))
                    \o <<".">> \o extension
          ELSE SubSeq(cleaned, 1, NameLimit)

\* t.split(ch)[0]
BeforeFirst(t, ch) ==
  LET at == {i \in 1..Len(t) : t[i] = ch}
  IN IF at = {} THEN t ELSE SubSeq(t, 1, MinOf(at) - 1)

\* t.split(ch)[1], for a text that has ch
AfterFirst(t, ch) ==
  LET first == MinOf({i \in 1..Len(t) : t[i] = ch})
  IN BeforeFirst(SubSeq(t, first + 1, Len(t)), ch)

\* the address of a From value: what stands between "<" and ">" if it has both
SenderEmail(sender) ==
  IF "<" \in Range(sender) /\ ">" \in Range(sender)
  THEN CHOOSE address \in {Strip(inner) :
                              inner \in {BeforeFirst(rest, ">") :
                                           rest \in {AfterFirst(sender, "<")}}} : TRUE
  ELSE sender

\* gmail_config['search_term']
SearchTerm == <<"G","R","N"," ","a","n","d"," ","r","e","c","o","n","c","i","l","i","a","t","i","o","n"," ">>
AllAttachments == <<"a","l","l","-","a","t","t","a","c","h","m","e","n","t","s">>
\* search_folder_name
SearchFolderName == IF SearchTerm # <<>> THEN SearchTerm ELSE AllAttachments
BaseFolderName == <<"G","m","a","i","l","_","A","t","t","a","c","h","m","e","n","t","s">>
FileTypeFolder == <<"E","x","c","e","l","_","F","i","l","e","s">>
Unknown == <<"U","n","k","n","o","w","n">>

\* final_filename
FinalFilename(message_id, filename) == message_id \o <<"_">> \o SanitizeFilename(filename)

\* A node of a payload tree: one that has "parts", or a leaf with its
\* filename and whether its body has an attachmentId.
Node(parts) == [has_parts |-> TRUE, parts |-> parts, filename |-> <<>>, attachmentId |-> FALSE]
Leaf(filename, attachmentId) ==
  [has_parts |-> FALSE, parts |-> <<>>, filename |-> filename, attachmentId |-> attachmentId]

RECURSIVE Leaves(_)
\* the nodes without "parts" in the order in which the walk comes to them
Leaves(payload) ==
  IF payload.has_parts
  THEN LET F[i \in 0..Len(payload.parts)] ==
             IF i = 0 THEN <<>> ELSE F[i - 1] \o Leaves(payload.parts[i])
       IN F[Len(payload.parts)]
  ELSE <<payload>>

\* a test that asks for the filename alone
HasFilename(payload) == payload.filename # <<>>

\* the test of the walk for a leaf to be an attachment
IsAttachment(payload) == payload.filename # <<>> /\ payload.attachmentId

(***************************************************************************)
(* The folder tree of the file store.  The id of a folder is its place in  *)
(* the sequence of folders; NoId is the empty id, and as a parent it is    *)
(* the top of the account.                                                 *)
(***************************************************************************)
\* the empty id that _create_drive_folder returns when a call of it fails
NoId == 0
\* gmail_config['gdrive_folder_id']
RootId == 1
RootName == <<"r","o","o","t">>
Folder(name, parent) == [name |-> name, parent |-> parent]

\* the folders the lookup of _create_drive_folder finds: those of the name,
\* under the parent when the id of the parent is not empty
FoldersNamed(fs, folder_name, parent_folder_id) ==
  {i \in 1..Len(fs) : /\ fs[i].name = folder_name
                      /\ (parent_folder_id # NoId => fs[i].parent = parent_folder_id)}

\* The outcomes the calls of _create_drive_folder can have: which call fails
\* (fail) and which of the folders found is files[0] (pick).
FolderCalls(fs, folder_name, parent_folder_id) ==
  LET files == FoldersNamed(fs, folder_name, parent_folder_id)
  IN {[fail |-> "none", pick |-> i] : i \in IF files = {} THEN {NoId} ELSE files}
       \cup {[fail |-> "list", pick |-> NoId]}
       \cup (IF files = {} THEN {[fail |-> "create", pick |-> NoId]} ELSE {})

\* _create_drive_folder: the id returned and the folders after it
CreateDriveFolder(fs, folder_name, parent_folder_id, call) ==
  LET files == FoldersNamed(fs, folder_name, parent_folder_id)
  IN IF call.fail = "list" THEN [id |-> NoId, folders |-> fs]
     ELSE IF files # {} THEN [id |-> call.pick, folders |-> fs]
     ELSE IF call.fail = "create" THEN [id |-> NoId, folders |-> fs]
     ELSE [id |-> Len(fs) + 1,
           folders |-> Append(fs, Folder(folder_name, parent_folder_id))]

\* the lookup of _file_exists_in_folder never finds a file
NoFileExists(fs, ups, filename, folder_id) == FALSE

\* the lookup of _file_exists_in_folder: anything of that name in the folder
FileExistsInFolder(fs, ups, filename, folder_id) ==
  /\ folder_id # NoId
  /\ \/ \E i \in 1..Len(ups) : ups[i].name = filename /\ ups[i].parent = folder_id
     \/ \E i \in 1..Len(fs) : fs[i].name = filename /\ fs[i].parent = folder_id

(***************************************************************************)
(* The messages of the mailbox.                                            *)
(***************************************************************************)
Message(id, from, payload) == [id |-> id, from |-> from, payload |-> payload]
NoFrom == <<"None">>
NoPayload == [has_parts |-> FALSE, parts |-> <<>>, filename |-> None, attachmentId |-> FALSE]

Bob == <<"B","o","b"," ","<","b","@","x",".","i","n",">">>
BobAddress == <<"b","@","x",".","i","n">>
ReportXlsx == <<"r",".","x","l","s","x">>
ReportXLS == <<"R",".","X","L","S">>
NotePdf == <<"n",".","p","d","f">>
ColonXlsm == <<"a",":","b",".","x","l","s","m">>
UnderscoreXlsm == <<"a","_","b",".","x","l","s","m">>
LongXlsx == [i \in 1..(NameLimit - 4) |-> "a"] \o <<".","x","l","s","x">>

\* a body text, a spreadsheet, a document and an inline spreadsheet
Msg1 ==
  Message(<<"m","1">>, Bob,
          Node(<< Leaf(<<>>, FALSE), Leaf(ReportXlsx, TRUE), Leaf(NotePdf, TRUE),
                  Leaf(ReportXLS, FALSE) >>))
\* nested parts; two names that sanitize to one name
Msg2 ==
  Message(<<"m","2">>, BobAddress,
          Node(<< Node(<< Leaf(ColonXlsm, TRUE), Leaf(UnderscoreXlsm, TRUE) >>),
                  Leaf(ReportXLS, TRUE), Node(<<>>) >>))
\* no From header; the payload is one leaf with a name over the limit
Msg3 == Message(<<"m","3">>, NoFrom, Leaf(LongXlsx, TRUE))
\* a message without payload
Msg4 == Message(<<"m","4">>, BobAddress, NoPayload)

MessageCatalog == {Msg1, Msg2, Msg3, Msg4}

\* the sequences of at most n different elements of S
DistinctSeqs(S, n) ==
  {s \in SeqsUpTo(S, n) : \A i, j \in 1..Len(s) : i # j => s[i] # s[j]}

(***************************************************************************)
(* State.                                                                  *)
(***************************************************************************)
VARIABLES
  driveFiles,    \* the source folder as the listing returns it: name, content
  ledger,        \* the grid of the ledger tab
  tabExists,     \* whether the spreadsheet has the ledger tab
  pc,            \* the place of the run in run_complete_workflow
  runs,          \* the number of the run
  faults,        \* the remote calls that have failed so far
  gmailResult,   \* the dict process_gmail_workflow returned
  excelResult,   \* the dict process_excel_workflow returned
  summaryData,   \* summary_data of run_complete_workflow
  \* locals of process_excel_workflow
  excelSummary,  \* excel_summary
  allFiles,      \* all_excel_files
  existing,      \* existing_source_files
  newFiles,      \* new_excel_files
  idx,           \* the place in new_excel_files of the file handled next
  sheetHasData,  \* sheet_has_data
  isFirstFile,   \* is_first_file
  dedup,         \* locals of _remove_duplicates_from_sheet between its calls
  \* history of the run, for the properties
  appendCalls,   \* the calls of _append_to_sheet_with_source, in order
  readCalls,     \* the files given to the parser, and whether nothing was extracted
  startLedger,   \* the ledger tab when the run started
  preDedup,      \* the ledger tab when the dedup of the run was entered
  prevAppended,  \* the names whose rows the runs before this one appended
  \* the mailbox and the destination tree of the harvest
  mailbox,       \* the messages the search returns, in order
  folders,       \* the folders of the file store: name, parent
  uploads,       \* the files the harvest has put in the file store: name, parent
  \* locals of process_gmail_workflow
  emails,        \* emails
  emailIdx,      \* the place in emails of the message handled next
  gmailSummary,  \* gmail_summary
  processedEmails, \* processed_emails
  baseFolderId,  \* base_folder_id
  sender,        \* sender of the message being handled
  parts,         \* the leaves of the payload of the message being handled
  partIdx,       \* the place in parts of the leaf handled next
  attStats,      \* the sum of the stats of the leaves handled so far
  att,           \* filename and the folder id last obtained for the attachment
  \* history of the harvest, for the properties
  fetched,       \* the attachments whose bytes the run asked the mailbox for
  harvestLog,    \* what the run did with each message, leaf and attachment, in order
  startUploads,  \* the uploaded files when the run started
  prevGmail,     \* gmail_summary of the run before this one
  \* run_complete_workflow and what it writes
  authenticated, \* what authenticate returned
  returned,      \* what run_complete_workflow returned: "none" until it has
  logTab,        \* the grid of the tab of the run summaries
  logTabExists,  \* whether the spreadsheet has that tab
  sentEmails,    \* the summary emails sent: the overall status of each
  logCalls,      \* the calls of _log_summary_to_sheet: the row, whether it was written
  stageLog,      \* the stages the run has entered, in order
  \* another run of the program on the same ledger
  otherPc,       \* where its append is: "idle", "append" or "done"
  otherValues,   \* the values its append sends
  \* _clean_dataframe called on its own
  cleanIn,       \* the table it is given
  cleanOut,      \* what it returned, and what it returned for that
  \* _try_raw_xml_extraction called on its own
  rawIn,         \* the archive and the header row it is given
  rawOut         \* what it returned

excelLocals == <<excelSummary, allFiles, existing, newFiles, idx, sheetHasData, isFirstFile, dedup>>
history == <<appendCalls, readCalls, startLedger, preDedup, prevAppended>>
gmailStore == <<mailbox, folders, uploads>>
gmailLocals == <<emails, emailIdx, gmailSummary, processedEmails, baseFolderId, sender,
                 parts, partIdx, attStats, att>>
gmailHistory == <<fetched, harvestLog, startUploads, prevGmail>>
gmailVars == <<gmailStore, gmailLocals, gmailHistory>>
excelVars == <<driveFiles, ledger, tabExists, excelResult, summaryData, excelLocals, history>>
runStore == <<logTab, logTabExists, sentEmails, logCalls>>
otherRun == <<otherPc, otherValues>>
cleanRun == <<cleanIn, cleanOut>>
rawRun == <<rawIn, rawOut>>
runRest == <<authenticated, returned, runStore, otherRun, cleanRun, rawRun>>
runVars == <<runRest, stageLog>>
vars == <<driveFiles, ledger, tabExists, pc, runs, faults, gmailResult, excelResult,
          summaryData, excelLocals, history, gmailVars, runVars>>

NoSummary ==
  [files_found |-> 0, files_skipped |-> 0, files_processed |-> 0, files_failed |-> 0,
   duplicates_removed |-> 0, details |-> <<>>]
NoResult == [returned |-> FALSE, success |-> FALSE, processed |-> 0]
\* calls: the calls of _remove_duplicates_from_sheet in the run
NoDedup == [removed |-> 0, all_values |-> <<>>, calls |-> 0]
NoGmailSummary ==
  [emails_checked |-> 0, attachments_found |-> 0, attachments_skipped |-> 0,
   attachments_uploaded |-> 0, attachments_failed |-> 0, details |-> <<>>]
NoStats == [total |-> 0, uploaded |-> 0, skipped |-> 0, failed |-> 0]
NoAttachment == [filename |-> <<>>, folder |-> NoId]
NoSummaryData == [made |-> FALSE, gmail_success |-> FALSE, excel_success |-> FALSE,
                  overall_success |-> FALSE]

\* the number of failed calls among the outcomes oks
Failed(oks) == Cardinality({i \in 1..Len(oks) : ~oks[i]})

\* the discovered files with their place in the listing
Listed(files) == [i \in 1..Len(files) |-> [id |-> i, name |-> files[i].name,
                                            content |-> files[i].content]]

(***************************************************************************)
(* process_excel_workflow                                                  *)
(***************************************************************************)
\* a stage that reports failure when a file failed
ReturnFailedFiles(summary) ==
  [returned |-> TRUE, success |-> summary.files_failed = 0,
   processed |-> summary.files_processed]

\* lines 485-491 (and 387-393, 419-425): the dict the stage returns
Return(summary) == [returned |-> TRUE, success |-> TRUE, processed |-> summary.files_processed]

\* a diffing that skips no file
NewExcelFilesAll(all_excel_files, existing_source_files) == all_excel_files

\* lines 406-413: the files of the listing that are not in the ledger yet
NewExcelFiles(all_excel_files, existing_source_files) ==
  SelectSeq(all_excel_files, LAMBDA f : f.name \notin existing_source_files)

\* a diffing that counts no file as skipped
NoFilesSkipped(all_excel_files, existing_source_files) == 0

\* lines 408-412: files_skipped, one for each file whose name is in the ledger
FilesSkipped(all_excel_files, existing_source_files) ==
  Cardinality({i \in 1..Len(all_excel_files) :
                 all_excel_files[i].name \in existing_source_files})

\* line 456: the include_headers argument of the append call
IncludeHeaders(is_first_file, sheet_has_data) == is_first_file /\ ~sheet_has_data

\* lines 359-425: the listing, the read of the existing sources, the
\* diffing, and the two early returns
ExcelDiscover ==
  /\ pc = "excel"
  /\ \E okList, okGet \in BOOLEAN :
       LET all == IF okList THEN Listed(driveFiles) ELSE <<>>
           got == IF okGet /\ tabExists
                  THEN ExistingSourceFiles(SheetGet(ledger, 1, ZCols), SourceCol)
                  ELSE {}
           new == NewExcelFiles(all, got)
           summary == [NoSummary EXCEPT !.files_found = Len(all),
                                        !.files_skipped = FilesSkipped(all, got)]
       IN /\ all = <<>> => okGet
          /\ faults + Failed(<<okList, okGet>>) <= MaxFaults
          /\ faults' = faults + Failed(<<okList, okGet>>)
          /\ excelSummary' = summary
          /\ allFiles' = all
          /\ existing' = got
          /\ newFiles' = new
          /\ IF new = <<>>
             THEN pc' = "summary" /\ excelResult' = Return(summary)
             ELSE pc' = "check" /\ excelResult' = NoResult
  /\ idx' = 1
  /\ sheetHasData' = FALSE
  /\ isFirstFile' = TRUE
  /\ dedup' = NoDedup
  /\ appendCalls' = <<>>
  /\ readCalls' = <<>>
  /\ startLedger' = ledger
  /\ preDedup' = ledger
  /\ stageLog' = Append(stageLog, "ingestion")
  /\ UNCHANGED runRest
  /\ UNCHANGED gmailVars
  /\ UNCHANGED <<driveFiles, ledger, tabExists, runs, gmailResult, summaryData, prevAppended>>

\* lines 427-433
ExcelCheckSheet ==
  /\ pc = "check"
  /\ \E ok \in BOOLEAN :
       /\ faults + Failed(<<ok>>) <= MaxFaults
       /\ faults' = faults + Failed(<<ok>>)
       /\ sheetHasData' = (ok /\ tabExists /\ CheckSheetHasData(SheetGet(ledger, 1, 1)))
  /\ isFirstFile' = TRUE
  /\ idx' = 1
  /\ pc' = "loop"
  /\ UNCHANGED gmailVars
  /\ UNCHANGED runVars
  /\ UNCHANGED <<driveFiles, ledger, tabExists, runs, gmailResult, excelResult, summaryData,
                 excelSummary, allFiles, existing, newFiles, dedup, history>>

\* lines 435-471: one iteration of the loop over the new files
ExcelProcessFile ==
  /\ pc = "loop"
  /\ idx <= Len(newFiles)
  /\ \E okRead, okAppend \in BOOLEAN :
     \E file \in {newFiles[idx]}, hdr \in {IncludeHeaders(isFirstFile, sheetHasData)} :
     \E df \in {ReadExcelFile(file.content, HeaderRow, okRead)} :
     \E tagged \in {WithSource(df, SourceCol, file.name)} :
     \E ap \in {AppendToSheetWithSource(tagged, SourceCol, hdr)} :
          /\ (IsEmpty(df) \/ ~ap.called) => okAppend
          /\ faults + Failed(<<okRead, okAppend>>) <= MaxFaults
          /\ faults' = faults + Failed(<<okRead, okAppend>>)
          /\ readCalls' = Append(readCalls, [id |-> file.id, downloaded |-> okRead,
                                             empty |-> IsEmpty(df)])
          /\ IF IsEmpty(df)
             THEN /\ excelSummary' = [excelSummary EXCEPT !.files_failed = @ + 1]
                  /\ UNCHANGED <<ledger, tabExists, isFirstFile, appendCalls>>
             ELSE /\ excelSummary' =
                       [excelSummary EXCEPT
                          !.files_processed = @ + 1,
                          !.details = Append(@, [file_name |-> file.name,
                                                 status |-> "processed",
                                                 rows_added |-> Len(tagged.rows)])]
                  /\ isFirstFile' = FALSE
                  /\ appendCalls' =
                       Append(appendCalls,
                              [id |-> file.id, name |-> file.name,
                               include_headers |-> hdr,
                               values |-> ap.values,
                               cols |-> ap.cols,
                               written |-> (ap.called /\ okAppend)])
                  /\ IF ap.called /\ okAppend
                     THEN ledger' = SheetAppend(ledger, ap.values) /\ tabExists' = TRUE
                     ELSE UNCHANGED <<ledger, tabExists>>
  /\ idx' = idx + 1
  /\ pc' = IF idx + 1 > Len(newFiles) THEN "dedup" ELSE "loop"
  /\ UNCHANGED gmailVars
  /\ UNCHANGED runVars
  /\ UNCHANGED <<driveFiles, runs, gmailResult, excelResult, summaryData, allFiles, existing,
                 newFiles, sheetHasData, dedup, startLedger, preDedup, prevAppended>>

\* a dedup after every loop
DedupAlways(excel_summary) == TRUE

\* line 474: the dedup is called when a file was counted as processed
DedupEntered(excel_summary) == excel_summary.files_processed > 0

\* lines 473-480 and 503-553: the dedup is entered when a file was processed;
\* it reads the tab, and clears it when there are duplicates to remove
ExcelDedup ==
  /\ pc = "dedup"
  /\ \E okGet, okClear \in BOOLEAN :
     \E entered \in {DedupEntered(excelSummary)} :
     \E reads \in {entered /\ okGet /\ tabExists} :
     \E values \in {IF reads THEN SheetGet(ledger, 1, ZCols) ELSE <<>>} :
     \E plan \in {RemoveDuplicates(values)} :
     \E clears \in {reads /\ ~plan.raised /\ plan.removed > 0} :
          /\ ~entered => okGet
          /\ ~clears => okClear
          /\ faults + Failed(<<okGet, okClear>>) <= MaxFaults
          /\ faults' = faults + Failed(<<okGet, okClear>>)
          /\ IF clears /\ okClear
             THEN /\ ledger' = SheetClear(ledger, 1, ZCols)
                  /\ dedup' = [removed |-> plan.removed, all_values |-> plan.all_values,
                                calls |-> dedup.calls + 1]
                  /\ pc' = "rewrite"
             ELSE /\ ledger' = ledger
                  /\ dedup' = [dedup EXCEPT !.calls = IF entered THEN @ + 1 ELSE @]
                  /\ pc' = "finish"
  /\ preDedup' = ledger
  /\ UNCHANGED gmailVars
  /\ UNCHANGED runVars
  /\ UNCHANGED <<driveFiles, tabExists, runs, gmailResult, excelResult, summaryData,
                 excelSummary, allFiles, existing, newFiles, idx, sheetHasData, isFirstFile,
                 appendCalls, readCalls, startLedger, prevAppended>>

\* lines 555-572: the rewrite of the deduplicated rows
ExcelDedupRewrite ==
  /\ pc = "rewrite"
  /\ \E ok \in BOOLEAN :
       /\ faults + Failed(<<ok>>) <= MaxFaults
       /\ faults' = faults + Failed(<<ok>>)
       /\ IF ok
          THEN /\ ledger' = SheetUpdate(ledger, dedup.all_values)
               /\ excelSummary' = [excelSummary EXCEPT !.duplicates_removed = dedup.removed]
          ELSE UNCHANGED <<ledger, excelSummary>>
  /\ pc' = "finish"
  /\ UNCHANGED gmailVars
  /\ UNCHANGED runVars
  /\ UNCHANGED <<driveFiles, tabExists, runs, gmailResult, excelResult, summaryData,
                 allFiles, existing, newFiles, idx, sheetHasData, isFirstFile, dedup, history>>

\* lines 482-491
ExcelFinish ==
  /\ pc = "finish"
  /\ excelResult' = Return(excelSummary)
  /\ pc' = "summary"
  /\ UNCHANGED gmailVars
  /\ UNCHANGED runVars
  /\ UNCHANGED <<driveFiles, ledger, tabExists, runs, faults, gmailResult, summaryData,
                 excelLocals, history>>

\* a run that reports the success of the ingestion stage alone
OnlyExcelSuccess(gmail_success, excel_success) == excel_success

\* line 766
OverallSuccess(gmail_success, excel_success) == gmail_success /\ excel_success

\* lines 750-767
SummaryData(gmail_result, excel_result) ==
  [made |-> TRUE,
   gmail_success |-> gmail_result.success,
   excel_success |-> excel_result.success,
   overall_success |-> OverallSuccess(gmail_result.success, excel_result.success)]

(***************************************************************************)
(* run_complete_workflow                                                   *)
(***************************************************************************)
\* lines 746-767: summary_data
Summarize ==
  /\ pc = "summary"
  /\ summaryData' = SummaryData(gmailResult, excelResult)
  /\ pc' = "log"
  /\ UNCHANGED gmailVars
  /\ UNCHANGED runVars
  /\ UNCHANGED <<driveFiles, ledger, tabExists, runs, faults, gmailResult, excelResult,
                 excelLocals, history>>

(***************************************************************************)
(* The ingestion stage run again and again by the scheduler, after a       *)
(* harvest stage of which only the result is kept.                         *)
(***************************************************************************)
ExcelAgain ==
  /\ pc = "log"
  /\ runs < MaxRuns
  /\ runs' = runs + 1
  /\ pc' = "excel"
  /\ prevAppended' = prevAppended \cup
                       {appendCalls[i].name : i \in {n \in 1..Len(appendCalls) :
                                                       appendCalls[n].written}}
  /\ excelResult' = NoResult
  /\ summaryData' = NoSummaryData
  /\ UNCHANGED gmailVars
  /\ UNCHANGED runVars
  /\ UNCHANGED <<driveFiles, ledger, tabExists, faults, gmailResult, excelLocals,
                 appendCalls, readCalls, startLedger, preDedup>>

\* no other run on the ledger
OtherIdle == otherPc = "idle" /\ otherValues = <<>>

\* no call of _clean_dataframe on its own
CleanIdle == cleanIn = EmptyFrame /\ cleanOut = <<>>

\* no call of _try_raw_xml_extraction on its own
RawIdle == rawIn = [zip |-> NoArchive, header_row |-> HeaderRow] /\ rawOut = <<>>

\* a run that has authenticated and has written no summary yet
RunIdle ==
  /\ authenticated = TRUE
  /\ returned = "none"
  /\ logTab = <<>>
  /\ logTabExists = FALSE
  /\ sentEmails = <<>>
  /\ logCalls = <<>>
  /\ stageLog = <<>>

\* the locals of process_gmail_workflow before it is called
GmailLocalsInit ==
  /\ emails = <<>>
  /\ emailIdx = 1
  /\ gmailSummary = NoGmailSummary
  /\ processedEmails = 0
  /\ baseFolderId = NoId
  /\ sender = Unknown
  /\ parts = <<>>
  /\ partIdx = 1
  /\ attStats = NoStats
  /\ att = NoAttachment
  /\ fetched = <<>>
  /\ harvestLog = <<>>
  /\ prevGmail = NoGmailSummary

\* a file store with the destination root alone, and no message to harvest
GmailIdle ==
  /\ mailbox = <<>>
  /\ folders = <<Folder(RootName, NoId)>>
  /\ uploads = <<>>
  /\ startUploads = <<>>
  /\ GmailLocalsInit

\* the ingestion stage about to be called, after a harvest that left a result
ExcelStart ==
  /\ GmailIdle
  /\ RunIdle
  /\ OtherIdle
  /\ CleanIdle
  /\ RawIdle
  /\ pc = "excel"
  /\ runs = 1
  /\ faults = 0
  /\ gmailResult \in {[returned |-> TRUE, success |-> b, processed |-> 0] : b \in BOOLEAN}
  /\ excelResult = NoResult
  /\ summaryData = NoSummaryData
  /\ excelSummary = NoSummary
  /\ allFiles = <<>>
  /\ existing = {}
  /\ newFiles = <<>>
  /\ idx = 1
  /\ sheetHasData = FALSE
  /\ isFirstFile = TRUE
  /\ dedup = NoDedup
  /\ appendCalls = <<>>
  /\ readCalls = <<>>
  /\ startLedger = <<>>
  /\ preDedup = <<>>
  /\ prevAppended = {}

InitExcel ==
  /\ ExcelStart
  /\ driveFiles \in DistinctSeqs(FileCatalog, MaxFiles)
  /\ ledger = <<>>
  /\ tabExists \in BOOLEAN

NextExcel ==
  \/ ExcelDiscover
  \/ ExcelCheckSheet
  \/ ExcelProcessFile
  \/ ExcelDedup
  \/ ExcelDedupRewrite
  \/ ExcelFinish
  \/ Summarize
  \/ ExcelAgain

SpecExcel == InitExcel /\ [][NextExcel]_vars

(***************************************************************************)
(* process_gmail_workflow.  The walk of a payload handles the leaves in    *)
(* the order of Leaves, one step of the model for each remote exchange of  *)
(* a leaf; the sum of the stats of the leaves is kept in attStats.         *)
(***************************************************************************)
GmailReturn(success, processed) ==
  [returned |-> TRUE, success |-> success, processed |-> processed]

\* search_emails, and the return when it gives no message
GmailSearch ==
  /\ pc = "gmail"
  /\ \E ok \in BOOLEAN :
       /\ ~ok => faults < MaxFaults
       /\ faults' = IF ok THEN faults ELSE faults + 1
       /\ emails' = IF ok THEN mailbox ELSE <<>>
       /\ gmailSummary' = [NoGmailSummary EXCEPT !.emails_checked = Len(emails')]
       /\ IF emails' = <<>>
          THEN gmailResult' = GmailReturn(TRUE, 0) /\ pc' = "gmailDone"
          ELSE gmailResult' = gmailResult /\ pc' = "base"
  /\ UNCHANGED <<runs, gmailStore, emailIdx, processedEmails, baseFolderId, sender, parts,
                 partIdx, attStats, att, gmailHistory>>
  /\ stageLog' = Append(stageLog, "harvest")
  /\ UNCHANGED runRest
  /\ UNCHANGED excelVars

\* the base folder, and the return when no id comes back for it
GmailBaseFolder ==
  /\ pc = "base"
  /\ \E call \in FolderCalls(folders, BaseFolderName, RootId) :
       LET r == CreateDriveFolder(folders, BaseFolderName, RootId, call)
       IN /\ call.fail # "none" => faults < MaxFaults
          /\ faults' = IF call.fail = "none" THEN faults ELSE faults + 1
          /\ folders' = r.folders
          /\ baseFolderId' = r.id
          /\ IF r.id = NoId
             THEN gmailResult' = GmailReturn(FALSE, 0) /\ pc' = "gmailDone"
             ELSE gmailResult' = gmailResult /\ pc' = "email"
  /\ emailIdx' = 1
  /\ processedEmails' = 0
  /\ UNCHANGED <<runs, mailbox, uploads, emails, gmailSummary, sender, parts, partIdx,
                 attStats, att, gmailHistory>>
  /\ UNCHANGED excelVars
  /\ UNCHANGED runVars

\* an entry of the history of the harvest
Event(kind, message_id, filename, outcome) ==
  [kind |-> kind, message_id |-> message_id, filename |-> filename, outcome |-> outcome]

\* the place of the loop after a message whose handling raised (lines 334-336):
\* the except clause is inside the loop, which goes on with the next message
AfterFailure(i, n) == i + 1

\* one message of the loop: its details and its full content
GmailEmail ==
  /\ pc = "email"
  /\ emailIdx <= Len(emails)
  /\ \E failed \in SUBSET {"details", "full"} :
       LET email == emails[emailIdx]
           from == IF "details" \in failed \/ email.from = NoFrom
                   THEN Unknown ELSE email.from
       IN /\ faults + Cardinality(failed) <= MaxFaults
          /\ faults' = faults + Cardinality(failed)
          /\ harvestLog' = Append(harvestLog,
                 Event("message", email.id, <<>>,
                       IF "full" \in failed THEN "fetch_failed"
                       ELSE IF email.payload = NoPayload THEN "no_payload"
                       ELSE "fetched"))
          /\ IF "full" \in failed
             THEN /\ gmailSummary' = [gmailSummary EXCEPT !.attachments_failed = @ + 1]
                  /\ emailIdx' = AfterFailure(emailIdx, Len(emails))
                  /\ UNCHANGED <<pc, sender, parts, partIdx, attStats>>
             ELSE IF email.payload = NoPayload
             THEN /\ emailIdx' = emailIdx + 1
                  /\ UNCHANGED <<pc, gmailSummary, sender, parts, partIdx, attStats>>
             ELSE /\ sender' = from
                  /\ parts' = Leaves(email.payload)
                  /\ partIdx' = 1
                  /\ attStats' = NoStats
                  /\ pc' = "part"
                  /\ UNCHANGED <<gmailSummary, emailIdx>>
  /\ UNCHANGED <<runs, gmailResult, gmailStore, emails, processedEmails, baseFolderId, att,
                 fetched, startUploads, prevGmail>>
  /\ UNCHANGED excelVars
  /\ UNCHANGED runVars

\* one leaf of the walk, up to the download of its bytes
GmailPart ==
  /\ pc = "part"
  /\ partIdx <= Len(parts)
  /\ LET payload == parts[partIdx]
     IN IF ~IsAttachment(payload) \/ ~IsExcelName(payload.filename)
        THEN /\ partIdx' = partIdx + 1
             /\ harvestLog' = Append(harvestLog,
                    Event("leaf", emails[emailIdx].id, payload.filename,
                          IF IsAttachment(payload) THEN "rejected" ELSE "no_attachment"))
             /\ UNCHANGED <<pc, faults, attStats, att, fetched>>
        ELSE \E ok \in BOOLEAN :
               /\ ~ok => faults < MaxFaults
               /\ harvestLog' = Append(harvestLog,
                      Event("leaf", emails[emailIdx].id, payload.filename,
                            IF ok THEN "downloaded" ELSE "download_failed"))
               /\ faults' = IF ok THEN faults ELSE faults + 1
               /\ fetched' = Append(fetched, [message_id |-> emails[emailIdx].id,
                                              filename |-> payload.filename])
               /\ IF ok
                  THEN /\ attStats' = [attStats EXCEPT !.total = @ + 1]
                       /\ att' = [filename |-> payload.filename, folder |-> baseFolderId]
                       /\ pc' = "sender"
                       /\ UNCHANGED partIdx
                  ELSE /\ attStats' = [attStats EXCEPT !.total = @ + 1, !.failed = @ + 1]
                       /\ partIdx' = partIdx + 1
                       /\ UNCHANGED <<pc, att>>
  /\ UNCHANGED <<runs, gmailResult, gmailStore, emails, emailIdx, gmailSummary,
                 processedEmails, baseFolderId, sender, parts, startUploads, prevGmail>>
  /\ UNCHANGED excelVars
  /\ UNCHANGED runVars

\* the name of the folder made at a level of the destination path
FolderNameAt(level) ==
  CASE level = "sender" ->
         CHOOSE name \in {SanitizeFilename(sender_email) :
                             sender_email \in {SenderEmail(sender)}} : TRUE
    [] level = "search" -> SearchFolderName
    [] level = "type" -> FileTypeFolder

\* one of the three folders of the destination path, under the one before
GmailFolder ==
  /\ pc \in {"sender", "search", "type"}
  /\ \E folder_name \in {FolderNameAt(pc)} :
     \E call \in FolderCalls(folders, folder_name, att.folder) :
     \E r \in {CreateDriveFolder(folders, folder_name, att.folder, call)} :
          /\ call.fail # "none" => faults < MaxFaults
          /\ faults' = IF call.fail = "none" THEN faults ELSE faults + 1
          /\ folders' = r.folders
          /\ att' = [att EXCEPT !.folder = r.id]
  /\ pc' = CASE pc = "sender" -> "search" [] pc = "search" -> "type" [] pc = "type" -> "deposit"
  /\ UNCHANGED <<runs, gmailResult, mailbox, uploads, emails, emailIdx, gmailSummary,
                 processedEmails, baseFolderId, sender, parts, partIdx, attStats,
                 gmailHistory>>
  /\ UNCHANGED excelVars
  /\ UNCHANGED runVars

\* the lookup of the final name in the folder, and the upload
GmailDeposit ==
  /\ pc = "deposit"
  /\ \E lookup_fails, create_fails \in BOOLEAN :
     \E final_filename \in {FinalFilename(emails[emailIdx].id, att.filename)} :
       LET found == /\ ~lookup_fails
                    /\ FileExistsInFolder(folders, uploads, final_filename, att.folder)
           \* a call that names the empty id as the folder is not a call that
           \* the store can be expected to serve
           counted == (IF lookup_fails /\ att.folder # NoId THEN 1 ELSE 0)
                        + (IF create_fails /\ att.folder # NoId THEN 1 ELSE 0)
       IN /\ create_fails => ~found
          /\ lookup_fails => att.folder # NoId
          /\ faults + counted <= MaxFaults
          /\ faults' = faults + counted
          /\ harvestLog' = Append(harvestLog,
                 Event("deposit", emails[emailIdx].id, att.filename,
                       IF found THEN "skipped"
                       ELSE IF create_fails THEN "upload_failed" ELSE "uploaded"))
          /\ IF found
             THEN /\ attStats' = [attStats EXCEPT !.skipped = @ + 1]
                  /\ UNCHANGED uploads
             ELSE IF create_fails
             THEN /\ attStats' = [attStats EXCEPT !.failed = @ + 1]
                  /\ UNCHANGED uploads
             ELSE /\ uploads' = Append(uploads, [name |-> final_filename,
                                                 parent |-> att.folder])
                  /\ attStats' = [attStats EXCEPT !.uploaded = @ + 1]
  /\ partIdx' = partIdx + 1
  /\ pc' = "part"
  /\ UNCHANGED <<runs, gmailResult, mailbox, folders, emails, emailIdx, gmailSummary,
                 processedEmails, baseFolderId, sender, parts, att, fetched, startUploads,
                 prevGmail>>
  /\ UNCHANGED excelVars
  /\ UNCHANGED runVars

\* lines 312-326: the summary with the stats of a message added
WithStats(gmail_summary, attachment_stats, from) ==
  [gmail_summary EXCEPT
     !.attachments_found = @ + attachment_stats.total,
     !.attachments_skipped = @ + attachment_stats.skipped,
     !.attachments_uploaded = @ + attachment_stats.uploaded,
     !.attachments_failed = @ + attachment_stats.failed,
     !.details = Append(@, [sender |-> from,
                            attachments_found |-> attachment_stats.total,
                            attachments_uploaded |-> attachment_stats.uploaded,
                            attachments_skipped |-> attachment_stats.skipped,
                            attachments_failed |-> attachment_stats.failed])]

\* the end of the walk of a message: the summary takes its stats
GmailEmailDone ==
  /\ pc = "part"
  /\ partIdx > Len(parts)
  /\ gmailSummary' = WithStats(gmailSummary, attStats, sender)
  /\ processedEmails' = IF attStats.total > 0 THEN processedEmails + 1 ELSE processedEmails
  /\ emailIdx' = emailIdx + 1
  /\ pc' = "email"
  /\ UNCHANGED <<runs, faults, gmailResult, gmailStore, emails, baseFolderId, sender, parts,
                 partIdx, attStats, att, gmailHistory>>
  /\ UNCHANGED excelVars
  /\ UNCHANGED runVars

\* the return after the loop
GmailFinish ==
  /\ pc = "email"
  /\ emailIdx > Len(emails)
  /\ gmailResult' = GmailReturn(TRUE, gmailSummary.attachments_uploaded)
  /\ pc' = "gmailDone"
  /\ UNCHANGED <<runs, faults, gmailVars>>
  /\ UNCHANGED excelVars
  /\ UNCHANGED runVars

\* the next call of process_gmail_workflow, on the same mailbox and file store
GmailAgain ==
  /\ pc = "gmailDone"
  /\ runs < MaxRuns
  /\ runs' = runs + 1
  /\ pc' = "gmail"
  /\ gmailResult' = NoResult
  /\ prevGmail' = gmailSummary
  /\ startUploads' = uploads
  /\ fetched' = <<>>
  /\ harvestLog' = <<>>
  /\ emails' = <<>>
  /\ emailIdx' = 1
  /\ gmailSummary' = NoGmailSummary
  /\ processedEmails' = 0
  /\ baseFolderId' = NoId
  /\ sender' = Unknown
  /\ parts' = <<>>
  /\ partIdx' = 1
  /\ attStats' = NoStats
  /\ att' = NoAttachment
  /\ UNCHANGED <<faults, gmailStore>>
  /\ UNCHANGED excelVars
  /\ UNCHANGED runVars

\* the excel stage at rest
ExcelIdle ==
  /\ driveFiles = <<>>
  /\ ledger = <<>>
  /\ tabExists = FALSE
  /\ excelResult = NoResult
  /\ summaryData = NoSummaryData
  /\ excelSummary = NoSummary
  /\ allFiles = <<>>
  /\ existing = {}
  /\ newFiles = <<>>
  /\ idx = 1
  /\ sheetHasData = FALSE
  /\ isFirstFile = TRUE
  /\ dedup = NoDedup
  /\ appendCalls = <<>>
  /\ readCalls = <<>>
  /\ startLedger = <<>>
  /\ preDedup = <<>>
  /\ prevAppended = {}

InitGmail ==
  /\ ExcelIdle
  /\ RunIdle
  /\ OtherIdle
  /\ CleanIdle
  /\ RawIdle
  /\ mailbox \in DistinctSeqs(MessageCatalog, MaxEmails)
  /\ folders = <<Folder(RootName, NoId)>>
  /\ uploads = <<>>
  /\ startUploads = <<>>
  /\ GmailLocalsInit
  /\ gmailResult = NoResult
  /\ pc = "gmail"
  /\ runs = 1
  /\ faults = 0

NextGmail ==
  \/ GmailSearch
  \/ GmailBaseFolder
  \/ GmailEmail
  \/ GmailPart
  \/ GmailFolder
  \/ GmailDeposit
  \/ GmailEmailDone
  \/ GmailFinish
  \/ GmailAgain

SpecGmail == InitGmail /\ [][NextGmail]_vars

(***************************************************************************)
(* The walk of _extract_attachments_from_email_detailed over the payload   *)
(* trees of a bounded set, in a harvest of one message.                    *)
(***************************************************************************)
\* a node that has "parts" and also declares a filename and an attachmentId,
\* as the part of a forwarded message does
NamedNode(filename, children) ==
  [has_parts |-> TRUE, parts |-> children, filename |-> filename, attachmentId |-> TRUE]

\* nodes without "parts": a spreadsheet and a document with attachmentId, a
\* spreadsheet name without attachmentId, an attachmentId without filename
WalkLeaves ==
  {Leaf(ReportXlsx, TRUE), Leaf(NotePdf, TRUE), Leaf(ReportXLS, FALSE), Leaf(<<>>, TRUE)}
\* nodes with "parts", "parts" being empty in two of them
WalkInner ==
  {Node(<<>>), NamedNode(ReportXLS, <<>>),
   Node(<< Leaf(ColonXlsm, TRUE), Leaf(NotePdf, TRUE) >>),
   NamedNode(ReportXLS, << Leaf(UnderscoreXlsm, TRUE) >>)}
\* the payloads: a single node, or a node with up to MaxWalkParts parts
WalkTrees ==
  WalkLeaves \cup {Node(ps) : ps \in SeqsUpTo(WalkLeaves \cup WalkInner, MaxWalkParts)}

InitWalk ==
  /\ ExcelIdle
  /\ RunIdle
  /\ OtherIdle
  /\ CleanIdle
  /\ RawIdle
  /\ mailbox \in {<<Message(<<"m","1">>, Bob, t)>> : t \in WalkTrees}
  /\ folders = <<Folder(RootName, NoId)>>
  /\ uploads = <<>>
  /\ startUploads = <<>>
  /\ GmailLocalsInit
  /\ gmailResult = NoResult
  /\ pc = "gmail"
  /\ runs = 1
  /\ faults = 0

NextWalk ==
  \/ GmailSearch
  \/ GmailBaseFolder
  \/ GmailEmail
  \/ GmailPart
  \/ GmailFolder
  \/ GmailDeposit
  \/ GmailEmailDone
  \/ GmailFinish

\* the program goes on while it has a step to take
SpecWalk == InitWalk /\ [][NextWalk]_vars /\ WF_vars(NextWalk)

(***************************************************************************)
(* run_complete_workflow: authenticate, the harvest stage, the ingestion   *)
(* stage, the summary, its row in the log tab, its email, the return.      *)
(* The clock is not modelled: the two timestamps and the duration are      *)
(* fixed texts.                                                            *)
(***************************************************************************)
RECURSIVE Decimal(_)
\* str of a natural number
Decimal(n) == IF n < 10 THEN <<Digits[n + 1]>> ELSE Decimal(n \div 10) \o <<Digits[(n % 10) + 1]>>

SuccessText == <<"S","U","C","C","E","S","S">>
FailedText == <<"F","A","I","L","E","D">>
\* lines 849-851
StatusText(success) == IF success THEN SuccessText ELSE FailedText

\* lines 865-871: the first four and the last three of the sixteen headers
\* are kept apart, the others stand in their place
SummaryHeaders ==
  << <<"W","o","r","k","f","l","o","w"," ","S","t","a","r","t">>,
     <<"W","o","r","k","f","l","o","w"," ","E","n","d">>,
     <<"D","u","r","a","t","i","o","n"," ","(","m","i","n",")">>,
     <<"E","m","a","i","l","s"," ","C","h","e","c","k","e","d">>,
     <<"A","t","t","a","c","h","m","e","n","t","s"," ","F","o","u","n","d">>,
     <<"A","t","t","a","c","h","m","e","n","t","s"," ","S","k","i","p","p","e","d">>,
     <<"A","t","t","a","c","h","m","e","n","t","s"," ","U","p","l","o","a","d","e","d">>,
     <<"A","t","t","a","c","h","m","e","n","t","s"," ","F","a","i","l","e","d">>,
     <<"T","o","t","a","l"," ","F","i","l","e","s"," ","F","o","u","n","d">>,
     <<"F","i","l","e","s"," ","S","k","i","p","p","e","d">>,
     <<"F","i","l","e","s"," ","P","r","o","c","e","s","s","e","d">>,
     <<"F","i","l","e","s"," ","F","a","i","l","e","d">>,
     <<"D","u","p","l","i","c","a","t","e","s"," ","R","e","m","o","v","e","d">>,
     <<"G","m","a","i","l"," ","S","t","a","t","u","s">>,
     <<"E","x","c","e","l"," ","S","t","a","t","u","s">>,
     <<"O","v","e","r","a","l","l"," ","S","t","a","t","u","s">> >>

StartText == <<"s","t","a","r","t">>
EndText == <<"e","n","d">>

\* lines 835-852
SummaryRow(summary_data, gmail_summary, excel_summary) ==
  << StartText, EndText, Decimal(0),
     Decimal(gmail_summary.emails_checked),
     Decimal(gmail_summary.attachments_found),
     Decimal(gmail_summary.attachments_skipped),
     Decimal(gmail_summary.attachments_uploaded),
     Decimal(gmail_summary.attachments_failed),
     Decimal(excel_summary.files_found),
     Decimal(excel_summary.files_skipped),
     Decimal(excel_summary.files_processed),
     Decimal(excel_summary.files_failed),
     Decimal(excel_summary.duplicates_removed),
     StatusText(summary_data.gmail_success),
     StatusText(summary_data.excel_success),
     StatusText(summary_data.overall_success) >>

\* a run that goes on when authenticate returned False
RunAnyway(ok) == "gmail"

\* lines 732-734: where the run goes after authenticate
AfterAuthentication(ok) == IF ok THEN "gmail" ELSE "done"

\* lines 731-734: authenticate changes nothing outside the session
Authenticate ==
  /\ pc = "start"
  /\ \E ok \in BOOLEAN :
       /\ authenticated' = ok
       /\ pc' = AfterAuthentication(ok)
       /\ returned' = IF ok THEN "none" ELSE "False"
  /\ UNCHANGED <<driveFiles, ledger, tabExists, runs, faults, gmailResult, excelResult,
                 summaryData, excelLocals, history, gmailVars, runStore, otherRun, cleanRun,
                 rawRun, stageLog>>

\* lines 349-357: an error no step of the harvest stage handles
GmailUnexpected ==
  /\ \/ pc \in {"gmail", "base"}
     \/ pc = "email" /\ emailIdx > Len(emails)
  /\ faults < MaxFaults
  /\ faults' = faults + 1
  /\ gmailResult' = GmailReturn(FALSE, 0)
  /\ pc' = "gmailDone"
  /\ stageLog' = IF pc = "gmail" THEN Append(stageLog, "harvest") ELSE stageLog
  /\ UNCHANGED <<driveFiles, ledger, tabExists, runs, excelResult, summaryData, excelLocals,
                 history, gmailStore, gmailLocals, gmailHistory, runRest>>

\* the last thing the walk did was to count an attachment as failed (line 645)
WalkJustFailed ==
  /\ harvestLog # <<>>
  /\ harvestLog[Len(harvestLog)].kind \in {"leaf", "deposit"}
  /\ harvestLog[Len(harvestLog)].outcome \in {"download_failed", "upload_failed"}

\* lines 334-336: an error in the body of the loop that no step of it
\* handles is caught inside the loop, which counts one failed attachment and
\* goes on with the next message.  It is raised before the walk of the
\* message, out of the walk after a failed attachment (the stats of the walk
\* are lost), or after the summary has taken the stats of the walk.
GmailEmailUnexpected ==
  /\ faults < MaxFaults
  /\ emailIdx <= Len(emails)
  /\ \E at \in {"before", "walk", "after"} :
       /\ at = "before" => pc = "email"
       /\ at = "walk" => pc = "part" /\ WalkJustFailed
       /\ at = "after" => pc = "part" /\ partIdx > Len(parts)
       /\ gmailSummary' =
            [(IF at = "after" THEN WithStats(gmailSummary, attStats, sender)
              ELSE gmailSummary) EXCEPT !.attachments_failed = @ + 1]
       /\ processedEmails' = IF at = "after" /\ attStats.total > 0
                             THEN processedEmails + 1 ELSE processedEmails
  /\ faults' = faults + 1
  /\ harvestLog' = Append(harvestLog,
                          Event("message", emails[emailIdx].id, <<>>, "fetch_failed"))
  /\ emailIdx' = AfterFailure(emailIdx, Len(emails))
  /\ pc' = "email"
  /\ UNCHANGED <<runs, gmailResult, gmailStore, emails, baseFolderId, sender, parts,
                 partIdx, attStats, att, fetched, startUploads, prevGmail>>
  /\ UNCHANGED excelVars
  /\ UNCHANGED runVars

\* a run that ends after a harvest stage that failed
SkipIngestionOnFailure(gmail_result) == IF gmail_result.success THEN "excel" ELSE "summary"

\* lines 740-744: the ingestion stage follows the harvest stage
AfterHarvest(gmail_result) == "excel"

\* line 744
RunIngestion ==
  /\ pc = "gmailDone"
  /\ pc' = AfterHarvest(gmailResult)
  /\ UNCHANGED <<driveFiles, ledger, tabExists, runs, faults, gmailResult, excelResult,
                 summaryData, excelLocals, history, gmailVars, runVars>>

\* lines 493-501: an error that no step of the ingestion stage handles, raised
\* outside the loop over the new files and outside the dedup, which catches
\* every error itself (lines 505 and 570-572).  Raised before the check of the
\* tab it finds the summary as it stands: nothing listed yet, the files
\* listed, or the files listed and some or all of the tracked ones counted as
\* skipped.  Raised after the dedup (lines 482-483) it finds the full summary.
ExcelUnexpected ==
  /\ pc \in {"excel", "check", "finish"}
  /\ excelResult' = [returned |-> TRUE, success |-> FALSE, processed |-> 0]
  /\ pc' = "summary"
  /\ IF pc = "excel"
     THEN /\ \E okList, okGet \in BOOLEAN, at \in {"start", "listed", "diffing"} :
             \E all \in {IF okList /\ at # "start" THEN Listed(driveFiles) ELSE <<>>} :
             \E got \in {IF okGet /\ tabExists /\ at = "diffing"
                          THEN ExistingSourceFiles(SheetGet(ledger, 1, ZCols), SourceCol)
                          ELSE {}} :
             \E skipped \in 0..FilesSkipped(all, got) :
               /\ at = "start" => okList /\ okGet
               /\ at = "listed" => okGet
               /\ at = "diffing" => all # <<>>
               /\ faults + Failed(<<okList, okGet>>) + 1 <= MaxFaults
               /\ faults' = faults + Failed(<<okList, okGet>>) + 1
               /\ excelSummary' = [NoSummary EXCEPT !.files_found = Len(all),
                                                    !.files_skipped = skipped]
               /\ allFiles' = all
               /\ existing' = got
               /\ newFiles' = <<>>
          /\ idx' = 1
          /\ sheetHasData' = FALSE
          /\ isFirstFile' = TRUE
          /\ dedup' = NoDedup
          /\ appendCalls' = <<>>
          /\ readCalls' = <<>>
          /\ startLedger' = ledger
          /\ preDedup' = ledger
          /\ stageLog' = Append(stageLog, "ingestion")
          /\ UNCHANGED prevAppended
     ELSE /\ faults < MaxFaults
          /\ faults' = faults + 1
          /\ UNCHANGED <<excelLocals, history, stageLog>>
  /\ UNCHANGED <<driveFiles, ledger, tabExists, runs, gmailResult, summaryData, gmailVars,
                 runRest>>

\* lines 505 and 570-572: an error raised in _remove_duplicates_from_sheet by a
\* statement that is not a remote call is caught there as well, and the dedup
\* returns 0.  Raised before the clear (lines 506 to 543) it leaves the tab as
\* it is; raised after the update (line 564) it leaves the tab rewritten and
\* duplicates_removed 0.  The stage goes on to its return.
ExcelDedupUnexpected ==
  /\ \/ pc = "dedup" /\ DedupEntered(excelSummary)
     \/ pc = "rewrite"
  /\ faults < MaxFaults
  /\ faults' = faults + 1
  /\ IF pc = "dedup"
     THEN /\ dedup' = [dedup EXCEPT !.calls = @ + 1]
          /\ preDedup' = ledger
          /\ UNCHANGED ledger
     ELSE /\ ledger' = SheetUpdate(ledger, dedup.all_values)
          /\ UNCHANGED <<dedup, preDedup>>
  /\ pc' = "finish"
  /\ UNCHANGED gmailVars
  /\ UNCHANGED runVars
  /\ UNCHANGED <<driveFiles, tabExists, runs, gmailResult, excelResult, summaryData,
                 excelSummary, allFiles, existing, newFiles, idx, sheetHasData, isFirstFile,
                 appendCalls, readCalls, startLedger, prevAppended>>

\* lines 469-471: an error in the body of the loop over the new files that no
\* step of it handles is caught inside the loop, which counts the file as
\* failed and goes on with the next file.  It is raised after an empty table
\* was counted as failed (the file is counted twice), after the table was read
\* and before the append, or after the append was counted as processed (the
\* file is counted as processed and as failed, and is_first_file is not set).
ExcelFileUnexpected ==
  /\ pc = "loop"
  /\ idx <= Len(newFiles)
  /\ \E okRead, okAppend \in BOOLEAN, at \in {"empty", "read", "appended"} :
     \E file \in {newFiles[idx]}, hdr \in {IncludeHeaders(isFirstFile, sheetHasData)} :
     \E df \in {ReadExcelFile(file.content, HeaderRow, okRead)} :
     \E tagged \in {WithSource(df, SourceCol, file.name)} :
     \E ap \in {AppendToSheetWithSource(tagged, SourceCol, hdr)} :
          /\ (at = "empty") = IsEmpty(df)
          /\ (at # "appended" \/ ~ap.called) => okAppend
          /\ faults + Failed(<<okRead, okAppend>>) + 1 <= MaxFaults
          /\ faults' = faults + Failed(<<okRead, okAppend>>) + 1
          /\ readCalls' = Append(readCalls, [id |-> file.id, downloaded |-> okRead,
                                             empty |-> IsEmpty(df)])
          /\ IF at = "empty"
             THEN /\ excelSummary' = [excelSummary EXCEPT !.files_failed = @ + 2]
                  /\ UNCHANGED <<ledger, tabExists, appendCalls>>
             ELSE IF at = "read"
             THEN /\ excelSummary' = [excelSummary EXCEPT !.files_failed = @ + 1]
                  /\ UNCHANGED <<ledger, tabExists, appendCalls>>
             ELSE /\ excelSummary' =
                       [excelSummary EXCEPT
                          !.files_processed = @ + 1,
                          !.files_failed = @ + 1,
                          !.details = Append(@, [file_name |-> file.name,
                                                 status |-> "processed",
                                                 rows_added |-> Len(tagged.rows)])]
                  /\ appendCalls' =
                       Append(appendCalls,
                              [id |-> file.id, name |-> file.name,
                               include_headers |-> hdr,
                               values |-> ap.values,
                               cols |-> ap.cols,
                               written |-> (ap.called /\ okAppend)])
                  /\ IF ap.called /\ okAppend
                     THEN ledger' = SheetAppend(ledger, ap.values) /\ tabExists' = TRUE
                     ELSE UNCHANGED <<ledger, tabExists>>
  /\ idx' = idx + 1
  /\ pc' = IF idx + 1 > Len(newFiles) THEN "dedup" ELSE "loop"
  /\ UNCHANGED gmailVars
  /\ UNCHANGED runVars
  /\ UNCHANGED <<driveFiles, runs, gmailResult, excelResult, summaryData, allFiles, existing,
                 newFiles, sheetHasData, isFirstFile, dedup, startLedger, preDedup,
                 prevAppended>>

\* a body that carries the headers on every call
LogBlockWithHeaders(values, summary_row) == <<SummaryHeaders, summary_row>>

\* lines 863-883 and 897-905: the body of the write; the headers go with the
\* row when column A of the tab has no values, and when the tab is missing
LogBlock(values, summary_row) ==
  IF values = <<>> THEN <<SummaryHeaders, summary_row>> ELSE <<summary_row>>

\* lines 771 and 831-916: _log_summary_to_sheet
LogSummary ==
  /\ pc = "log"
  /\ stageLog' = Append(stageLog, "summary")
  /\ \E okGet, okWrite \in BOOLEAN :
     \E row \in {SummaryRow(summaryData, gmailSummary, excelSummary)} :
     \E values \in {IF logTabExists THEN SheetGet(logTab, 1, 1) ELSE <<>>} :
     \E block \in {LogBlock(values, row)} :
          /\ (logTabExists /\ ~okGet) => okWrite
          /\ ~logTabExists => okGet
          /\ faults + Failed(<<okGet, okWrite>>) <= MaxFaults
          /\ faults' = faults + Failed(<<okGet, okWrite>>)
          /\ logCalls' = Append(logCalls, [row |-> row, existed |-> logTabExists,
                                           written |-> okGet /\ okWrite])
          /\ IF okGet /\ okWrite
             THEN /\ logTabExists' = TRUE
                  /\ logTab' = IF values = <<>>
                               THEN SheetUpdate(logTab, block)
                               ELSE SheetAppend(logTab, block)
             ELSE UNCHANGED <<logTab, logTabExists>>
  /\ pc' = "mail"
  /\ UNCHANGED <<driveFiles, ledger, tabExists, runs, gmailResult, excelResult, summaryData,
                 excelLocals, history, gmailVars, authenticated, returned, sentEmails,
                 otherRun, cleanRun, rawRun>>

\* lines 775, 650-721 and 789: _send_summary_email, then the return
SendSummaryEmail ==
  /\ pc = "mail"
  /\ \E ok \in BOOLEAN :
       /\ ~ok => faults < MaxFaults
       /\ faults' = IF ok THEN faults ELSE faults + 1
       /\ sentEmails' = IF ok THEN Append(sentEmails, StatusText(summaryData.overall_success))
                        ELSE sentEmails
  /\ returned' = IF summaryData.overall_success THEN "True" ELSE "False"
  /\ pc' = "done"
  /\ UNCHANGED <<driveFiles, ledger, tabExists, runs, gmailResult, excelResult, summaryData,
                 excelLocals, history, gmailVars, authenticated, logTab, logTabExists,
                 logCalls, stageLog, otherRun, cleanRun, rawRun>>

\* the files and the messages of the runs of the whole workflow
\* the files of a first run: two of one name, with one row in common
RunFiles == {File(GRN1, TwoCols), File(GRN1, Damaged)}
\* the files of a later run: one more, that no decoder reads
StoreFiles == RunFiles \cup {File(GRN3, Garbage)}
RunMessages == {Msg3, Msg4}

\* what earlier runs left: the rows of GRN2 in the ledger, and the row of a
\* run that found nothing in the log tab
PastLedger ==
  SheetAppend(<<>>, AppendToSheetWithSource(
                      WithSource(ReadExcelFile(TwoCols, HeaderRow, TRUE), SourceCol, GRN2),
                      SourceCol, TRUE).values)
PastLog ==
  <<SummaryHeaders,
    SummaryRow(SummaryData(GmailReturn(TRUE, 0), Return(NoSummary)), NoGmailSummary, NoSummary)>>

\* a run about to start, on the files and the messages of a bounded set
RunStart ==
  /\ pc = "start"
  /\ OtherIdle
  /\ CleanIdle
  /\ RawIdle
  /\ authenticated = FALSE
  /\ returned = "none"
  /\ sentEmails = <<>>
  /\ logCalls = <<>>
  /\ stageLog = <<>>
  /\ mailbox \in DistinctSeqs(RunMessages, MaxRunEmails)
  /\ tabExists = TRUE
  /\ runs = 1
  /\ faults = 0
  /\ gmailResult = NoResult
  /\ excelResult = NoResult
  /\ summaryData = NoSummaryData
  /\ excelSummary = NoSummary
  /\ allFiles = <<>>
  /\ existing = {}
  /\ newFiles = <<>>
  /\ idx = 1
  /\ sheetHasData = FALSE
  /\ isFirstFile = TRUE
  /\ dedup = NoDedup
  /\ appendCalls = <<>>
  /\ readCalls = <<>>
  /\ startLedger = <<>>
  /\ preDedup = <<>>
  /\ prevAppended = {}
  /\ folders = <<Folder(RootName, NoId)>>
  /\ uploads = <<>>
  /\ startUploads = <<>>
  /\ GmailLocalsInit

\* the first run: nothing in the ledger, and no log tab yet
Init ==
  /\ RunStart
  /\ driveFiles \in DistinctSeqs(RunFiles, MaxRunFiles)
  /\ ledger = <<>>
  /\ logTab = <<>>
  /\ logTabExists = FALSE

\* a run after earlier runs
InitStores ==
  /\ RunStart
  /\ driveFiles \in DistinctSeqs(StoreFiles, MaxRunFiles)
  /\ ledger \in {<<>>, PastLedger}
  /\ logTab \in {<<>>, PastLog}
  /\ logTabExists \in {logTab # <<>>, TRUE}

Next ==
  \/ Authenticate
  \/ GmailSearch
  \/ GmailBaseFolder
  \/ GmailEmail
  \/ GmailPart
  \/ GmailFolder
  \/ GmailDeposit
  \/ GmailEmailDone
  \/ GmailFinish
  \/ GmailUnexpected
  \/ GmailEmailUnexpected
  \/ RunIngestion
  \/ ExcelDiscover
  \/ ExcelCheckSheet
  \/ ExcelProcessFile
  \/ ExcelDedup
  \/ ExcelDedupRewrite
  \/ ExcelFinish
  \/ ExcelUnexpected
  \/ ExcelFileUnexpected
  \/ ExcelDedupUnexpected
  \/ Summarize
  \/ LogSummary
  \/ SendSummaryEmail

\* every call of the run returns or fails, so a run that can take a step of
\* the program takes it; no failure has to happen
Steps ==
  \/ Authenticate
  \/ GmailSearch
  \/ GmailBaseFolder
  \/ GmailEmail
  \/ GmailPart
  \/ GmailFolder
  \/ GmailDeposit
  \/ GmailEmailDone
  \/ GmailFinish
  \/ RunIngestion
  \/ ExcelDiscover
  \/ ExcelCheckSheet
  \/ ExcelProcessFile
  \/ ExcelDedup
  \/ ExcelDedupRewrite
  \/ ExcelFinish
  \/ Summarize
  \/ LogSummary
  \/ SendSummaryEmail

Fairness == WF_vars(Steps)

Spec == Init /\ [][Next]_vars /\ Fairness

SpecStores == InitStores /\ [][Next]_vars

(***************************************************************************)
(* The ledger accessor on the tabs of a bounded set.  The rows are rows    *)
(* the append writes: cells, then the name of a file; a file with fewer or *)
(* more columns than the file that gave the header leaves shorter or       *)
(* longer rows.                                                            *)
(***************************************************************************)
LedgerHeader == << <<"p">>, <<"q">>, SourceCol >>
RowA == << <<"x">>, <<"y">>, GRN1 >>
RowB == << <<"u">>, <<"v">>, GRN1 >>
RowC == << <<"x">>, <<"y">>, GRN2 >>
RowShort == << <<"x">>, GRN3 >>
RowLong == << <<"x">>, <<"y">>, <<>>, GRN2 >>
RowFirst == << GRN4, <<"x">>, <<"y">> >>
\* a header and a row of a table that fills the columns A to Z
WideHeader == [j \in 1..ZCols |-> [k \in 1..j |-> "c"]] \o <<SourceCol>>
WideRow == [j \in 1..ZCols |-> <<"v">>] \o <<GRN1>>

\* the header alone, or the header, a row of the file that gave it, and rows
\* of any file
DedupGrids ==
  {<<LedgerHeader>>} \cup
  {<<LedgerHeader, f>> \o d :
     f \in {RowA, RowB, RowC},
     d \in SeqsUpTo({RowA, RowB, RowC, RowShort, RowLong}, MaxRows - 1)}

SourceGrids ==
  {<<h>> \o d :
     h \in {LedgerHeader, << SourceCol, <<"p">>, <<"q">> >>, << <<"p">>, <<"q">> >>,
            WideHeader},
     d \in SeqsUpTo({RowA, RowC, RowShort, RowLong, RowFirst, WideRow}, MaxSourceRows)}

InitAccessor ==
  /\ GmailIdle
  /\ RunIdle
  /\ runs = 1
  /\ faults = 0
  /\ gmailResult = [returned |-> TRUE, success |-> TRUE, processed |-> 0]
  /\ excelResult = NoResult
  /\ summaryData = NoSummaryData
  /\ allFiles = <<>>
  /\ existing = {}
  /\ newFiles = <<>>
  /\ idx = 1
  /\ sheetHasData = FALSE
  /\ isFirstFile = TRUE
  /\ dedup = NoDedup
  /\ appendCalls = <<>>
  /\ readCalls = <<>>
  /\ prevAppended = {}

\* _remove_duplicates_from_sheet on each of the tabs
InitDedup ==
  /\ InitAccessor
  /\ OtherIdle
  /\ CleanIdle
  /\ RawIdle
  /\ driveFiles = <<>>
  /\ ledger \in DedupGrids
  /\ tabExists = TRUE
  /\ pc = "dedup"
  /\ excelSummary = [NoSummary EXCEPT !.files_found = 1, !.files_processed = 1]
  /\ startLedger = ledger
  /\ preDedup = ledger

NextDedup ==
  \/ ExcelDedup
  \/ ExcelDedupRewrite
  \/ ExcelFinish

SpecDedup == InitDedup /\ [][NextDedup]_vars

(***************************************************************************)
(* Two runs of the program on one ledger: the dedup of this run, one       *)
(* remote call at a time, while the append of another run is under way.    *)
(* The program takes no lock and the runs are separate processes, so the   *)
(* calls of the two interleave in any order.                               *)
(***************************************************************************)
\* lines 508-541: the read of the dedup and what it plans to write
OverlapDedupRead ==
  /\ pc = "dedup"
  /\ \E values \in {SheetGet(ledger, 1, ZCols)} :
     \E plan \in {RemoveDuplicates(values)} :
       IF ~plan.raised /\ plan.removed > 0
       THEN /\ dedup' = [removed |-> plan.removed, all_values |-> plan.all_values,
                          calls |-> dedup.calls + 1]
            /\ pc' = "clear"
       ELSE /\ dedup' = [dedup EXCEPT !.calls = @ + 1]
            /\ pc' = "finish"
  /\ preDedup' = ledger
  /\ UNCHANGED gmailVars
  /\ UNCHANGED runVars
  /\ UNCHANGED <<driveFiles, ledger, tabExists, runs, faults, gmailResult, excelResult,
                 summaryData, excelSummary, allFiles, existing, newFiles, idx, sheetHasData,
                 isFirstFile, appendCalls, readCalls, startLedger, prevAppended>>

\* lines 549-553: the clear of the dedup
OverlapDedupClear ==
  /\ pc = "clear"
  /\ ledger' = SheetClear(ledger, 1, ZCols)
  /\ pc' = "rewrite"
  /\ UNCHANGED gmailVars
  /\ UNCHANGED runVars
  /\ UNCHANGED <<driveFiles, tabExists, runs, faults, gmailResult, excelResult, summaryData,
                 excelLocals, history>>

\* lines 818-824, in the other run: its append call
OtherAppend ==
  /\ otherPc = "append"
  /\ ledger' = SheetAppend(ledger, otherValues)
  /\ otherPc' = "done"
  /\ UNCHANGED gmailVars
  /\ UNCHANGED <<authenticated, returned, runStore, otherValues, cleanRun, rawRun, stageLog>>
  /\ UNCHANGED <<driveFiles, tabExists, pc, runs, faults, gmailResult, excelResult,
                 summaryData, excelLocals, history>>

\* the rows the other run appends: the rows of a file the ledger has not
OtherRows == << << <<"m">>, <<"n">>, GRN4 >> >>

InitOverlap ==
  /\ InitAccessor
  /\ CleanIdle
  /\ RawIdle
  /\ otherPc = "append"
  /\ otherValues \in {OtherRows, OtherRows \o <<RowA>>}
  /\ driveFiles = <<>>
  /\ ledger \in DedupGrids
  /\ tabExists = TRUE
  /\ pc = "dedup"
  /\ excelSummary = [NoSummary EXCEPT !.files_found = 1, !.files_processed = 1]
  /\ startLedger = ledger
  /\ preDedup = ledger

NextOverlap ==
  \/ OverlapDedupRead
  \/ OverlapDedupClear
  \/ ExcelDedupRewrite
  \/ ExcelFinish
  \/ OtherAppend

SpecOverlap == InitOverlap /\ [][NextOverlap]_vars

(***************************************************************************)
(* _clean_dataframe on the tables of a bounded set, called on a table and  *)
(* then on what it returned.                                               *)
(***************************************************************************)
FirstCells == {<<"x">>, <<"'","x","'">>, NaN}
SecondCells ==
  {<<"y">>, <<"'">>, <<" ","\t">>, <<"n","'","a","n">>, <<"n","a","n","">>, NaN, None}
ColumnNames == {<< <<"p">> >>, << <<"p">>, <<"q">> >>, << <<"p">>, <<"p">> >>}
Dtypes == {"object", "float64"}

NumberCells == {<<"7",".","0">>, NaN}

\* a float column holds numbers and NaN
CellsOf(j, dtype) ==
  IF dtype = "float64" THEN NumberCells ELSE IF j = 1 THEN FirstCells ELSE SecondCells

CleanTables ==
  UNION {UNION {
     {Frame(cols, dtypes, rows) :
        rows \in SeqsUpTo({r \in [1..Len(cols) -> FirstCells \cup SecondCells \cup NumberCells] :
                             \A j \in 1..Len(cols) : r[j] \in CellsOf(j, dtypes[j])},
                          MaxCleanRows)} :
     dtypes \in [1..Len(cols) -> Dtypes]} : cols \in ColumnNames}

\* the table the next call is given
CleanArgument == IF cleanOut = <<>> THEN cleanIn ELSE cleanOut[Len(cleanOut)]

\* one call of _clean_dataframe
Clean ==
  /\ pc = "clean"
  /\ IF CleanRaises(CleanArgument)
     THEN pc' = "raised" /\ cleanOut' = cleanOut
     ELSE /\ cleanOut' = Append(cleanOut, CleanDataFrame(CleanArgument))
          /\ pc' = IF Len(cleanOut) = 1 THEN "cleaned" ELSE "clean"
  /\ UNCHANGED gmailVars
  /\ UNCHANGED <<authenticated, returned, runStore, otherRun, cleanIn, rawRun, stageLog>>
  /\ UNCHANGED <<driveFiles, ledger, tabExists, runs, faults, gmailResult, excelResult,
                 summaryData, excelLocals, history>>

InitClean ==
  /\ InitAccessor
  /\ OtherIdle
  /\ RawIdle
  /\ cleanIn \in CleanTables
  /\ cleanOut = <<>>
  /\ pc = "clean"
  /\ driveFiles = <<>>
  /\ ledger = <<>>
  /\ tabExists = FALSE
  /\ excelSummary = NoSummary
  /\ startLedger = <<>>
  /\ preDedup = <<>>

NextClean == Clean

SpecClean == InitClean /\ [][NextClean]_vars

(***************************************************************************)
(* The ingestion stage on a ledger tab that holds a header row and no data *)
(* row yet.                                                                *)
(***************************************************************************)
InitHeader ==
  /\ ExcelStart
  /\ driveFiles \in DistinctSeqs(RunFiles, MaxRunFiles)
  /\ ledger = <<LedgerHeader>>
  /\ tabExists = TRUE

SpecHeader == InitHeader /\ [][NextExcel]_vars

(***************************************************************************)
(* The summary step of one run after the other, on a log tab that is       *)
(* missing or empty before the first.  Of the stages before the step only  *)
(* what the summary row shows differs: the two results and the files found.*)
(***************************************************************************)
SummaryInputs == [gmail : BOOLEAN, excel : BOOLEAN, found : 0..1]

\* lines 736-767: the stages have returned and the summary is made
ReachedSummary(in) ==
  /\ gmailResult = GmailReturn(in.gmail, 0)
  /\ excelResult = [Return(NoSummary) EXCEPT !.success = in.excel]
  /\ excelSummary = [NoSummary EXCEPT !.files_found = in.found, !.files_skipped = in.found]
  /\ summaryData = SummaryData(gmailResult, excelResult)

\* lines 1185-1190: the next run of the scheduler, up to its summary step
LogAgain ==
  /\ pc = "done"
  /\ runs < MaxRuns
  /\ runs' = runs + 1
  /\ pc' = "log"
  /\ returned' = "none"
  /\ \E in \in SummaryInputs :
       /\ gmailResult' = GmailReturn(in.gmail, 0)
       /\ excelResult' = [Return(NoSummary) EXCEPT !.success = in.excel]
       /\ excelSummary' = [NoSummary EXCEPT !.files_found = in.found,
                                            !.files_skipped = in.found]
       /\ summaryData' = SummaryData(gmailResult', excelResult')
  /\ UNCHANGED gmailVars
  /\ UNCHANGED <<authenticated, runStore, otherRun, cleanRun, rawRun, stageLog>>
  /\ UNCHANGED <<driveFiles, ledger, tabExists, faults, allFiles, existing, newFiles, idx,
                 sheetHasData, isFirstFile, dedup, history>>

InitLog ==
  /\ GmailIdle
  /\ OtherIdle
  /\ CleanIdle
  /\ RawIdle
  /\ authenticated = TRUE
  /\ returned = "none"
  /\ logTab = <<>>
  /\ logTabExists \in BOOLEAN
  /\ sentEmails = <<>>
  /\ logCalls = <<>>
  /\ stageLog = <<>>
  /\ pc = "log"
  /\ runs = 1
  /\ faults = 0
  /\ \E in \in SummaryInputs : ReachedSummary(in)
  /\ driveFiles = <<>>
  /\ ledger = <<>>
  /\ tabExists = TRUE
  /\ allFiles = <<>>
  /\ existing = {}
  /\ newFiles = <<>>
  /\ idx = 1
  /\ sheetHasData = FALSE
  /\ isFirstFile = TRUE
  /\ dedup = NoDedup
  /\ appendCalls = <<>>
  /\ readCalls = <<>>
  /\ startLedger = <<>>
  /\ preDedup = <<>>
  /\ prevAppended = {}

NextLog ==
  \/ LogSummary
  \/ SendSummaryEmail
  \/ LogAgain

SpecLog == InitLog /\ [][NextLog]_vars

(***************************************************************************)
(* _try_raw_xml_extraction on the archives of a bounded set.               *)
(***************************************************************************)
\* the text of a cell's value element; a cell without one gives ''
RawCells == {<<"x">>, <<>>}
\* the rows of a worksheet: rows of unequal cell counts, and rows without cells
RawSheetRows == SeqsUpTo(SeqsUpTo(RawCells, MaxRawCells), MaxRawRows)
\* the bytes: no container, a container without worksheet, a worksheet whose
\* XML does not parse, and the worksheets of the rows above
RawArchives ==
  {NoArchive, [ok |-> TRUE, sheets |-> <<>>],
   [ok |-> TRUE, sheets |-> <<[ok |-> FALSE, rows |-> <<>>]>>]}
    \cup {Archive(rows) : rows \in RawSheetRows}
\* header_row of the configuration: none, the first row, the second
RawHeaderRows == {-1, 0, 1}

\* one call of _try_raw_xml_extraction
RawExtract ==
  /\ pc = "raw"
  /\ rawOut' = <<TryRawXmlExtraction(rawIn.zip, rawIn.header_row)>>
  /\ pc' = "rawDone"
  /\ UNCHANGED gmailVars
  /\ UNCHANGED <<authenticated, returned, runStore, otherRun, cleanRun, rawIn, stageLog>>
  /\ UNCHANGED <<driveFiles, ledger, tabExists, runs, faults, gmailResult, excelResult,
                 summaryData, excelLocals, history>>

InitRaw ==
  /\ InitAccessor
  /\ OtherIdle
  /\ CleanIdle
  /\ rawIn \in [zip : RawArchives, header_row : RawHeaderRows]
  /\ rawOut = <<>>
  /\ pc = "raw"
  /\ driveFiles = <<>>
  /\ ledger = <<>>
  /\ tabExists = FALSE
  /\ excelSummary = NoSummary
  /\ startLedger = <<>>
  /\ preDedup = <<>>

NextRaw == RawExtract

SpecRaw == InitRaw /\ [][NextRaw]_vars

\* _get_existing_source_files and _check_sheet_has_data on each of the tabs,
\* and on a spreadsheet without the tab
InitSources ==
  /\ InitAccessor
  /\ OtherIdle
  /\ CleanIdle
  /\ RawIdle
  /\ driveFiles = << File(GRN1, TwoCols), File(GRN2, ThreeCols) >>
  /\ \/ tabExists = FALSE /\ ledger = <<>>
     \/ tabExists = TRUE /\ ledger \in SourceGrids \cup {<<>>}
  /\ pc = "excel"
  /\ excelSummary = NoSummary
  /\ startLedger = ledger
  /\ preDedup = ledger

NextSources ==
  \/ ExcelDiscover
  \/ ExcelCheckSheet

SpecSources == InitSources /\ [][NextSources]_vars

(***************************************************************************)
(* Properties of the ingestion stage.                                      *)
(***************************************************************************)
\* the names whose rows the run has written so far
Written == {appendCalls[i].name : i \in {n \in 1..Len(appendCalls) : appendCalls[n].written}}

\* C1: when the ingestion runs twice on an unchanged file store and no remote
\* call fails, the second run appends no row to the ledger tab, and every file
\* whose rows the first run appended is skipped by the second (it is not a new
\* file).
C1_SecondRunAppendsNothing ==
  (runs = 2 /\ faults = 0 /\ pc # "excel") =>
     /\ Written = {}
     /\ pc \in {"check", "loop", "dedup"} => ledger = startLedger
     /\ \A i \in 1..Len(newFiles) : newFiles[i].name \notin prevAppended

\* a row that ends in the name of the tracking column
IsHeaderRow(r) == r # <<>> /\ r[Len(r)] = SourceCol
HeaderRows(g) == {i \in 1..Len(g) : IsHeaderRow(g[i])}
WrittenCalls == {n \in 1..Len(appendCalls) : appendCalls[n].written}
FirstWritten == CHOOSE n \in WrittenCalls : \A m \in WrittenCalls : n <= m

\* C2: a run that started on an empty ledger tab and appended at least one
\* file leaves exactly one header row, which is the first row and is the
\* header of the first appended file, and every later append wrote data rows
\* only.
C2_OneHeaderFromFirstFile ==
  (pc = "summary" /\ startLedger = <<>> /\ WrittenCalls # {}) =>
     /\ HeaderRows(ledger) = {1}
     /\ appendCalls[FirstWritten].include_headers
     /\ ledger[1] = appendCalls[FirstWritten].values[1]
     /\ \A n \in WrittenCalls \ {FirstWritten} : ~appendCalls[n].include_headers

\* The header property of C2 does hold in the runs in which no remote call
\* fails.
OneHeaderWhenNoCallFails == faults = 0 => C2_OneHeaderFromFirstFile
\* the rows of the written append calls of the run, in order
WrittenRows ==
  LET F[n \in 0..Len(appendCalls)] ==
        IF n = 0 THEN <<>>
        ELSE IF appendCalls[n].written THEN F[n - 1] \o appendCalls[n].values
             ELSE F[n - 1]
  IN F[Len(appendCalls)]

\* C4: every row an append call sends has the tracking column last: the header
\* row, when it is sent, ends in source_file_name and has it nowhere else, every
\* data row ends in the display name of the file; and until the dedup of the
\* run these rows are what the run has added to the ledger tab.
C4_SourceColumnLast ==
  /\ \A n \in 1..Len(appendCalls) :
       LET c == appendCalls[n]
       IN \A k \in 1..Len(c.values) :
            LET r == c.values[k]
            IN /\ r # <<>>
               /\ IF c.include_headers /\ k = 1
                  THEN /\ r[Len(r)] = SourceCol
                       /\ \A j \in 1..(Len(r) - 1) : r[j] # SourceCol
                  ELSE r[Len(r)] = c.name
  /\ pc \in {"loop", "dedup"} => ledger = startLedger \o WrittenRows

\* the case of C4: the header and a data row of a file whose own table has a
\* source_file_name column before its last column are in the ledger
C4_Witness ==
  \E n \in 1..Len(appendCalls) :
    /\ appendCalls[n].written
    /\ appendCalls[n].include_headers
    /\ appendCalls[n].name = GRN4
    /\ Len(appendCalls[n].values) = 2
    /\ pc = "dedup"

\* what the dedup is to leave of a tab: the header, then the first occurrence
\* of each data row
Deduplicated(g) == IF Len(g) <= 1 THEN g ELSE <<g[1]>> \o DropDuplicates(Tail(g))

\* C6: once the dedup has returned, also when its rewrite call failed after
\* its clear call, the ledger tab holds its content from before the dedup or
\* the header and the deduplicated rows.
C6_DedupReplacesAtomically ==
  pc \in {"finish", "summary", "log"} =>
     ledger = preDedup \/ ledger = Deduplicated(preDedup)

EmptyReads == {n \in 1..Len(readCalls) : readCalls[n].empty}

\* C7: when the run is summarized, every new file was given to the parser once,
\* in order; files_failed counts the files from which nothing was extracted,
\* once each; every other file has its append call, which wrote its rows when
\* no remote call of the run failed, and is counted in files_processed; the
\* stage reports success, and the run reports success when the harvest stage
\* did.
C7_UnreadableFileIsolated ==
  summaryData.made =>
     /\ [n \in 1..Len(readCalls) |-> readCalls[n].id]
          = [n \in 1..Len(newFiles) |-> newFiles[n].id]
     /\ excelSummary.files_failed = Cardinality(EmptyReads)
     /\ excelSummary.files_processed = Len(readCalls) - Cardinality(EmptyReads)
     /\ [n \in 1..Len(appendCalls) |-> appendCalls[n].id]
          = Pick([n \in 1..Len(readCalls) |-> readCalls[n].id],
                 (1..Len(readCalls)) \ EmptyReads)
     /\ faults = 0 => \A n \in 1..Len(appendCalls) : appendCalls[n].written
     /\ excelResult.success
     /\ summaryData.excel_success
     /\ summaryData.overall_success = gmailResult.success

\* the case of C7: three new files, the second unreadable
C7_Witness ==
  /\ summaryData.made
  /\ faults = 0
  /\ Len(appendCalls) = 2
  /\ Len(newFiles) = 3
  /\ EmptyReads = {2}
  /\ excelSummary.files_processed = 2
  /\ excelSummary.files_failed = 1
  /\ summaryData.overall_success

\* C9: a discovered file is a new file exactly when its name is not in the set
\* the read of the existing sources returned to this run; the other files are
\* counted in files_skipped, and no file given to the parser or to the append
\* has its name in that set.
C9_NewIffNotInLedger ==
  /\ \A i \in 1..Len(allFiles) :
       (allFiles[i] \in Range(newFiles)) <=> (allFiles[i].name \notin existing)
  /\ Range(newFiles) \subseteq Range(allFiles)
  /\ Len(newFiles) = Cardinality(Range(newFiles))
  /\ excelSummary.files_skipped
       = Cardinality({i \in 1..Len(allFiles) : allFiles[i].name \in existing})
  /\ \A n \in 1..Len(readCalls) :
       /\ allFiles[readCalls[n].id].name \notin existing
       /\ allFiles[readCalls[n].id] \in Range(newFiles)
  /\ \A n \in 1..Len(appendCalls) : appendCalls[n].name \notin existing

\* the case of C9: a run that skips a file and parses another one
C9_Witness ==
  /\ excelSummary.files_skipped > 0
  /\ readCalls # <<>>
  /\ pc = "summary"

\* the ledger tab had data when the run checked it: the tab is not written
\* between the start of the run and the check
TabHadData == CheckSheetHasData(SheetGet(startLedger, 1, 1))

\* C10: in a run only the first append call may ask for the header, and it
\* does only if the ledger tab had no data when the run checked it, before
\* the first file.
C10_HeaderOnlyOnFirstAppend ==
  \A n \in 1..Len(appendCalls) :
    appendCalls[n].include_headers => (n = 1 /\ ~TabHadData)

\* C5: the dedup of a tab with a header and data rows, when its calls succeed,
\* leaves the header and the first occurrence of each data row in order,
\* returns the number of rows removed, and leaves the tab alone when no row
\* is duplicated.
C5_DedupKeepsFirstOccurrences ==
  (pc = "finish" /\ faults = 0 /\ Len(preDedup) >= 2) =>
     /\ ledger = Deduplicated(preDedup)
     /\ excelSummary.duplicates_removed = Len(preDedup) - Len(Deduplicated(preDedup))
     /\ Deduplicated(preDedup) = preDedup => (dedup.removed = 0 /\ dedup.all_values = <<>>)

\* The example of C5, rows [A,B,A,C,B], does come out as [A,B,C] with 2 removed.
DedupExample ==
  (pc = "finish" /\ faults = 0
     /\ preDedup = <<LedgerHeader, RowA, RowB, RowA, RowC, RowB>>) =>
       /\ ledger = <<LedgerHeader, RowA, RowB, RowC>>
       /\ excelSummary.duplicates_removed = 2

\* The property of C5 holds on the tabs that have no row longer than the
\* header, their first data row being as long as it.
DedupWhenNoRowIsLonger ==
  (\A i \in 1..Len(preDedup) : Len(preDedup[i]) <= Len(preDedup[1]))
     => C5_DedupKeepsFirstOccurrences

\* the values of the tracking column of the whole tab
TrackedNames ==
  IF ~tabExists \/ Len(ledger) <= 1 \/ SourceCol \notin Range(ledger[1]) THEN {}
  ELSE LET k == IndexOf(ledger[1], SourceCol)
       IN {ledger[i][k] : i \in {n \in 2..Len(ledger) :
                                   Len(ledger[n]) >= k /\ ledger[n][k] # <<>>}}

\* C8: the read of the existing sources, when its call succeeds, returns the
\* non-empty values of the tracking column over all the data rows of the tab,
\* wherever the header has that column, and the empty set when there is no
\* tab, at most one row, or no such column.
C8_ExistingSourcesOfFullTab ==
  (pc \in {"check", "summary"} /\ faults = 0) => existing = TrackedNames

\* The property of C8 holds on the tabs whose header has the tracking column
\* in the columns A to Z, or not at all.
ExistingSourcesWithinAZ ==
  (Len(ledger) >= 1 /\ Len(ledger[1]) > ZCols /\ SourceCol \in Range(ledger[1]))
    \/ C8_ExistingSourcesOfFullTab

\* C3: a second harvest of the same mailbox into the same file store, with no
\* remote call failing in either harvest, uploads nothing: the file store has
\* the files it had when the harvest started, attachments_uploaded is 0 and
\* attachments_skipped equals attachments_found.
C3_SecondHarvestUploadsNothing ==
  (runs = 2 /\ faults = 0) =>
     /\ uploads = startUploads
     /\ pc = "gmailDone" =>
          /\ gmailSummary.attachments_uploaded = 0
          /\ gmailSummary.attachments_skipped = gmailSummary.attachments_found

\* a second harvest that found three attachments, after a first one that
\* uploaded two of them and skipped the one whose final name was taken
C3_Witness ==
  /\ runs = 2 /\ faults = 0 /\ pc = "gmailDone"
  /\ gmailResult.success
  /\ gmailSummary.attachments_found = 3
  /\ gmailSummary.attachments_skipped = 3
  /\ prevGmail.attachments_uploaded = 2
  /\ prevGmail.attachments_skipped = 1

(***************************************************************************)
(* Properties of the layout of the appended rows.                          *)
(***************************************************************************)
\* C11: while the ledger tab has a header row as its first row, every append
\* call of the run that wrote rows sent them in the column order of that
\* header, the source file column last; this already in the runs in which no
\* remote call fails.
C11_RowsInHeaderOrder ==
  (pc \in {"loop", "dedup"} /\ faults = 0 /\ ledger # <<>> /\ IsHeaderRow(ledger[1])) =>
     \A n \in WrittenCalls : appendCalls[n].cols = ledger[1]

(***************************************************************************)
(* Properties of the harvest stage.                                        *)
(***************************************************************************)
\* the entries of the history of the harvest of a kind, in order
Logged(kind) == SelectSeq(harvestLog, LAMBDA e : e.kind = kind)
\* the number of entries of the history with an outcome
Outcomes(outcome) == Cardinality({i \in 1..Len(harvestLog) : harvestLog[i].outcome = outcome})
\* the file names of the leaves handled for a message, in order
LeavesHandled(message_id) ==
  LET of == SelectSeq(Logged("leaf"), LAMBDA e : e.message_id = message_id)
  IN [i \in 1..Len(of) |-> of[i].filename]

\* C12: when the loop of the harvest has ended, every message the search
\* returned was visited, in order; every leaf of every message whose content
\* was fetched was handled, in order, and every downloaded attachment went on
\* to the lookup and upload; and every call that failed for a message or an
\* attachment in the loop of the first harvest is counted in
\* attachments_failed.
C12_HarvestGoesOnAfterFailure ==
  (pc = "gmailDone" /\ gmailResult.success) =>
     /\ [i \in 1..Len(Logged("message")) |-> Logged("message")[i].message_id]
          = [i \in 1..Len(emails) |-> emails[i].id]
     /\ \A i \in 1..Len(emails) :
          Logged("message")[i].outcome = "fetched" =>
            LeavesHandled(emails[i].id)
              = [k \in 1..Len(Leaves(emails[i].payload)) |->
                   Leaves(emails[i].payload)[k].filename]
     /\ Len(Logged("deposit")) = Outcomes("downloaded")
     /\ (runs = 1 /\ emails # <<>>) => gmailSummary.attachments_failed >= faults

(***************************************************************************)
(* Properties of run_complete_workflow.                                    *)
(***************************************************************************)
Stages == <<"harvest", "ingestion", "summary">>

\* C13: a run that passed authentication ends, returning a boolean, after
\* it entered the harvest stage, the ingestion stage and the logging of the
\* summary, once each and in this order, whatever failed in the stages.
C13_RunEndsAfterEachStageOnce ==
  /\ [](authenticated => \E n \in 0..3 : stageLog = SubSeq(Stages, 1, n))
  /\ []((pc = "done" /\ authenticated) => (stageLog = Stages /\ returned \in {"True", "False"}))
  /\ (pc = "gmail") ~> (pc = "done")

C13_Witness ==
  /\ pc = "done" /\ authenticated /\ stageLog = Stages
  /\ ~gmailResult.success /\ excelResult.success /\ returned = "False"


\* C14: after a successful authentication the overall_success of the summary
\* and the boolean the run returns are the success of the harvest stage and
\* the success of the ingestion stage together, whatever the counts of the
\* attachments and of the files that failed.
C14_OverallIsHarvestAndIngestion ==
  /\ summaryData.made =>
       summaryData.overall_success = (gmailResult.success /\ excelResult.success)
  /\ (pc = "done" /\ authenticated) =>
       /\ summaryData.made
       /\ returned = IF gmailResult.success /\ excelResult.success THEN "True" ELSE "False"

C14_Witness ==
  /\ pc = "done" /\ authenticated /\ returned = "True"
  /\ gmailSummary.attachments_failed > 0
  /\ excelSummary.files_failed > 0


\* the file store, the ledger, the log ledger, and the mail sent
stores == <<driveFiles, folders, uploads, ledger, tabExists, logTab, logTabExists, sentEmails>>

\* C15: when authentication fails the run returns false at once, no stage
\* is entered, and from there on the file store, the ledger and the log
\* ledger stay as they were.
C15_FailedAuthenticationRunsNothing ==
  [][/\ (pc = "start" /\ ~authenticated') =>
          (pc' = "done" /\ returned' = "False" /\ stageLog' = <<>> /\ stores' = stores)
     /\ (pc # "start" /\ ~authenticated) =>
          (pc' = "done" /\ stageLog' = <<>> /\ stores' = stores)]_vars

C15_Witness ==
  /\ pc = "done" /\ ~authenticated /\ returned = "False" /\ stageLog = <<>>
  /\ ledger = PastLedger /\ logTab = PastLog /\ driveFiles # <<>> /\ mailbox # <<>>


(***************************************************************************)
(* Properties of the append.                                               *)
(***************************************************************************)
\* the table of the file the loop is at, with its tracking column
TableAtIdx ==
  WithSource(ReadExcelFile(newFiles[idx].content, HeaderRow, TRUE), SourceCol,
             newFiles[idx].name)

\* the cells of row k of a table as the append sends them
SentRow(table, k) ==
  LET order == SourceLast(table, SourceCol)
  IN FrameValues(<<[j \in 1..Len(order) |-> table.rows[k][order[j]]]>>)[1]

\* C16: an append that succeeds is one call; it leaves the rows of the ledger
\* as they are and where they are, and puts below them, as one block, the
\* header when it is requested and then the rows of the table in their order.
\* In the loop the ledger changes in no other way.
C16_AppendAddsOneBlockAtEnd ==
  [][pc = "loop" =>
       /\ ledger' # ledger =>
            (Len(appendCalls') = Len(appendCalls) + 1 /\ appendCalls'[Len(appendCalls')].written)
       /\ (Len(appendCalls') > Len(appendCalls) /\ appendCalls'[Len(appendCalls')].written) =>
            LET call == appendCalls'[Len(appendCalls')]
                h == IF call.include_headers THEN 1 ELSE 0
            IN /\ Len(appendCalls') = Len(appendCalls) + 1
               /\ ledger' = ledger \o call.values
               /\ Len(call.values) = h + Len(TableAtIdx.rows)
               /\ h = 1 => call.values[1] = call.cols
               /\ \A k \in 1..Len(TableAtIdx.rows) :
                    call.values[h + k] = SentRow(TableAtIdx, k)]_vars

C16_Witness ==
  /\ pc = "dedup"
  /\ Cardinality(WrittenCalls) >= 2
  /\ \E n \in WrittenCalls : ~appendCalls[n].include_headers /\ Len(appendCalls[n].values) >= 2
  /\ ledger = startLedger \o WrittenRows


(***************************************************************************)
(* Properties of two runs on one ledger.                                   *)
(***************************************************************************)
\* C17: the append of one run takes effect neither between the read and the
\* clear of the dedup of the other run nor between its clear and its rewrite,
\* and once both are done the ledger has every row that was appended.
C17_AppendAndDedupExclusive ==
  /\ pc = "clear" => ledger = preDedup
  /\ pc = "rewrite" => ledger = <<>>
  /\ (pc = "finish" /\ otherPc = "done" /\ faults = 0) =>
       \A i \in 1..Len(otherValues) : otherValues[i] \in Range(ledger)


(***************************************************************************)
(* Properties of the filter of the harvest.                                *)
(***************************************************************************)
\* the leaves of the harvest that the filter rejected
RejectedLeaves == {i \in 1..Len(harvestLog) : harvestLog[i].outcome = "rejected"}

\* the count of filtered attachments that a harvest result reports
Filtered(gmail_summary) ==
  IF "attachments_filtered" \in DOMAIN gmail_summary
  THEN gmail_summary["attachments_filtered"]
  ELSE 0

\* the bytes of no rejected leaf were asked of the mailbox or put in the store
RejectedNeverMoved ==
  \A i \in RejectedLeaves :
     /\ ~IsExcelName(harvestLog[i].filename)
     /\ \A n \in 1..Len(fetched) :
          ~(fetched[n].message_id = harvestLog[i].message_id
            /\ fetched[n].filename = harvestLog[i].filename)
     /\ \A n \in 1..Len(uploads) : ~EndsWith(uploads[n].name, harvestLog[i].filename)

\* C18: an attachment whose name does not end in .xls, .xlsx or .xlsm in any
\* case is rejected: the result of the harvest counts it as filtered, and its
\* bytes are neither downloaded nor uploaded.
C18_RejectedIsCountedAndNeverMoved ==
  (pc = "gmailDone" /\ gmailResult.success) =>
     /\ RejectedNeverMoved
     /\ Filtered(gmailSummary) = Cardinality(RejectedLeaves)


(***************************************************************************)
(* Properties of _clean_dataframe.                                         *)
(***************************************************************************)
\* C19: on every table it returns for, _clean_dataframe returns a table with
\* no more rows than it was given, and called on that table it returns it
\* unchanged.
C19_CleanIsIdempotent ==
  /\ Len(cleanOut) >= 1 => Len(cleanOut[1].rows) <= Len(cleanIn.rows)
  /\ Len(cleanOut) = 2 => cleanOut[2] = cleanOut[1]

C19_Witness ==
  /\ Len(cleanOut) = 2
  /\ Len(cleanIn.cols) = 2
  /\ Len(cleanIn.rows) = 2
  /\ Len(cleanOut[1].rows) = 1
  /\ cleanOut[1].rows # SubSeq(cleanIn.rows, 1, 1)
  /\ cleanOut[1].rows # SubSeq(cleanIn.rows, 2, 2)


(***************************************************************************)
(* Properties of the parser in the loop over the new files.                *)
(***************************************************************************)
\* a content pandas cannot read and from which the fallback extracts no row
Undecodable(content) ==
  /\ ~content.std.ok
  /\ \/ ~content.zip.ok
     \/ content.zip.sheets = <<>>
     \/ ~content.zip.sheets[1].ok
     \/ Len(SelectSeq(content.zip.sheets[1].rows, LAMBDA r : r # <<>>)) <= 1

\* C20: the parser returns to the loop for every file; it returns an empty
\* table when the download failed, and when pandas cannot read the file and
\* the fallback fails or extracts no row; and for a file with an empty table
\* the loop makes no append call, so the ledger has the rows of the written
\* calls and no other.
C20_ParserReturnsEmptyAndNothingIsWritten ==
  /\ pc = "loop" => Len(readCalls) = idx - 1
  /\ pc \in {"dedup", "finish", "summary"} => Len(readCalls) = Len(newFiles)
  /\ \A n \in 1..Len(readCalls) :
       /\ readCalls[n].id = newFiles[n].id
       /\ (~readCalls[n].downloaded \/ Undecodable(newFiles[n].content)) => readCalls[n].empty
       /\ readCalls[n].empty =>
            \A k \in 1..Len(appendCalls) : appendCalls[k].id # readCalls[n].id
  /\ pc \in {"loop", "dedup"} => ledger = startLedger \o WrittenRows

C20_Witness ==
  /\ pc = "dedup"
  /\ Len(readCalls) = 3
  /\ ~readCalls[1].downloaded /\ readCalls[1].empty /\ ~Undecodable(newFiles[1].content)
  /\ readCalls[2].downloaded /\ readCalls[2].empty /\ newFiles[2].content = HeaderOnly
  /\ ~readCalls[3].empty
  /\ ledger # <<>>


(***************************************************************************)
(* Properties of the fallback extraction.                                  *)
(***************************************************************************)
\* the rows with cells of the worksheet the call was given
RawData ==
  IF rawIn.zip.ok /\ rawIn.zip.sheets # <<>> /\ rawIn.zip.sheets[1].ok
  THEN SelectSeq(rawIn.zip.sheets[1].rows, LAMBDA r : r # <<>>)
  ELSE <<>>
\* those below the row taken as header, all of them when none is taken
RawBody ==
  IF rawIn.header_row >= 0 /\ Len(RawData) > rawIn.header_row
  THEN SubSeq(RawData, rawIn.header_row + 2, Len(RawData))
  ELSE RawData
\* the cells of row r are the first cells of row s, the rest of s is missing
HoldsRow(s, r) ==
  /\ Len(s) >= Len(r)
  /\ \A j \in 1..Len(s) : s[j] = IF j <= Len(r) THEN r[j] ELSE None

\* C21: the fallback extraction returns, for a worksheet whose rows have
\* unequal cell counts, a data row longer than the header row included, a
\* table that is not empty and has one row for each row below the header row,
\* with the cells of that row.
C21_RaggedRowsAreAccepted ==
  (pc = "rawDone" /\ RawBody # <<>>) =>
     /\ ~IsEmpty(rawOut[1])
     /\ Len(rawOut[1].rows) = Len(RawBody)
     /\ \A i \in 1..Len(RawBody) : HoldsRow(rawOut[1].rows[i], RawBody[i])


(***************************************************************************)
(* Properties of the log tab.                                              *)
(***************************************************************************)
\* the rows of the calls whose remote calls succeeded, in the order of the runs
LoggedRows ==
  LET written == SelectSeq(logCalls, LAMBDA c : c.written)
  IN [i \in 1..Len(written) |-> written[i].row]

\* C22: after any number of runs that reached the summary step, the log tab
\* is empty when no run had its calls succeed, and otherwise it is the header
\* row followed by one row for each run whose calls succeeded, in the order of
\* the runs; the header is row 0 and no other row.
C22_LogTabIsHeaderThenOneRowPerRun ==
  /\ Len(logCalls) = (IF pc = "log" THEN runs - 1 ELSE runs)
  /\ LoggedRows = <<>> => logTab = <<>>
  /\ LoggedRows # <<>> =>
       /\ logTabExists
       /\ logTab = <<SummaryHeaders>> \o LoggedRows
       /\ \A i \in 2..Len(logTab) : logTab[i] # SummaryHeaders

C22_Witness ==
  /\ pc = "done"
  /\ runs = 2
  /\ ~logCalls[1].existed
  /\ logCalls[1].written /\ logCalls[2].written
  /\ Len(logTab) = 3
  /\ logTab[2] # logTab[3]

(***************************************************************************)
(* Properties of the loop over the new files.                              *)
(***************************************************************************)
\* C23: in one run the rows of at most one file of each display name are
\* appended to the ledger.
C23_NoNameIngestedTwice ==
  \A i, j \in WrittenCalls :
     i # j => appendCalls[i].name # appendCalls[j].name

\* C24: a file is counted in files_processed, and listed in details as
\* processed, only when its append call wrote its rows to the ledger.
C24_ProcessedOnlyIfWritten ==
  /\ excelSummary.files_processed <= Cardinality(WrittenCalls)
  /\ \A d \in 1..Len(excelSummary.details) :
       excelSummary.details[d].status = "processed" =>
          \E n \in WrittenCalls : appendCalls[n].name = excelSummary.details[d].file_name

\* the display names in the tracking column of the ledger as the run found it
TrackedAtStart ==
  IF Len(startLedger) <= 1 \/ SourceCol \notin Range(startLedger[1]) THEN {}
  ELSE LET k == IndexOf(startLedger[1], SourceCol)
       IN {startLedger[i][k] : i \in {n \in 2..Len(startLedger) :
                                        Len(startLedger[n]) >= k /\ startLedger[n][k] # <<>>}}

\* C25: no run appends the rows of a file whose display name is in the
\* tracking column of the ledger when the run starts, whether or not the read
\* of the existing sources succeeds in that run.
C25_RecordedNameNeverAppendedAgain ==
  \A n \in WrittenCalls : appendCalls[n].name \notin TrackedAtStart

\* C26: when the stage has returned from a run that found the ledger tab
\* empty, and the tab has rows, its first row is a header row ending in
\* source_file_name, whichever append calls of the run failed.
C26_HeaderWrittenWhenFirstAppendFails ==
  (pc = "summary" /\ startLedger = <<>> /\ ledger # <<>>) => IsHeaderRow(ledger[1])

(***************************************************************************)
(* Properties of the place of the dedup in the run.                        *)
(***************************************************************************)
\* C27: a run calls the dedup at most once; the call comes when every new
\* file has had its turn in the loop, so that no append call follows it, and
\* before the summary is logged; and it is made only in a run that counted a
\* file as processed.
C27_DedupOnceAfterTheAppends ==
  [][ /\ dedup'.calls <= 1
      /\ dedup'.calls # dedup.calls =>
           /\ pc = "dedup"
           /\ idx > Len(newFiles)
           /\ excelSummary.files_processed > 0
           /\ "summary" \notin Range(stageLog')
      /\ dedup.calls > 0 =>
           /\ appendCalls' = appendCalls
           /\ readCalls' = readCalls
           /\ pc' \notin {"check", "loop", "dedup"}
      /\ (pc \in {"dedup", "rewrite"} /\ ledger' # ledger) => dedup'.calls = 1
    ]_vars

C27_Witness ==
  /\ pc = "mail"
  /\ dedup.calls = 1
  /\ dedup.removed > 0
  /\ Len(readCalls) = 2
  /\ Cardinality(WrittenCalls) = 2
  /\ excelSummary.duplicates_removed > 0
  /\ stageLog = Stages

(***************************************************************************)
(* Properties of the header of the ledger.                                 *)
(***************************************************************************)
\* C28: the header is the first row of the ledger tab and no other: no run
\* writes a header row below rows the tab already has, in particular not the
\* run that finds a header row and no data row in the tab.
C28_HeaderOnlyAsRowZero ==
  \A i \in 2..Len(ledger) : ~IsHeaderRow(ledger[i])

(***************************************************************************)
(* Properties of the output of _clean_dataframe.                           *)
(***************************************************************************)
\* a cell that is missing, empty, all white space, or the text nan
BlankCell(c) ==
  \/ c \in {NaN, None}
  \/ \A k \in 1..Len(c) : c[k] \in WhiteSpace
  \/ c = <<"n","a","n">>
\* the text nan with white space before or after it
PaddedNan(c) ==
  /\ c \notin {NaN, None}
  /\ Len(c) > 3
  /\ \E s \in 1..(Len(c) - 2) :
        /\ SubSeq(c, s, s + 2) = <<"n","a","n">>
        /\ \A k \in 1..Len(c) : k \notin s..(s + 2) => c[k] \in WhiteSpace
\* the rows of the table given, the quotes taken out of its text cells
Unquoted ==
  [i \in 1..Len(cleanIn.rows) |->
     [j \in 1..Len(cleanIn.cols) |->
        LET c == cleanIn.rows[i][j]
        IN IF cleanIn.dtypes[j] # "object" THEN c
           ELSE IF c = NaN THEN <<"n","a","n">>
           ELSE IF c = None THEN <<"N","o","n","e">>
           ELSE SelectSeq(c, LAMBDA ch : ch # "'")]]
\* the rows to survive: the second cell is not blank, nor nan in white space
\* (which the row filter takes for nan), and no earlier row is the same
Surviving ==
  {i \in 1..Len(Unquoted) :
     /\ ~BlankCell(Unquoted[i][2])
     /\ ~PaddedNan(Unquoted[i][2])
     /\ \A j \in 1..(i - 1) : Unquoted[j] # Unquoted[i]}

\* C29: for a table of two columns or more, the output of _clean_dataframe
\* has no row whose second cell is empty, all white space or the text nan
\* after the quotes are taken out, has no two identical rows, and is the
\* surviving rows in the order of the input, the first of identical rows kept.
C29_CleanedRowsKeyedDistinctInOrder ==
  (Len(cleanOut) >= 1 /\ Len(cleanIn.cols) >= 2) =>
     LET out == cleanOut[1].rows
     IN /\ \A i \in 1..Len(out) : ~BlankCell(out[i][2])
        /\ \A i, j \in 1..Len(out) : i # j => out[i] # out[j]
        /\ Len(out) = Cardinality(Surviving)
        /\ \A i \in 1..Len(out) :
             \E k \in Surviving :
                /\ out[i] = Unquoted[k]
                /\ Cardinality({n \in Surviving : n < k}) = i - 1

C29_Witness ==
  /\ Len(cleanOut) >= 1
  /\ Len(cleanIn.cols) = 2
  /\ Len(cleanIn.rows) = 2
  /\ cleanIn.rows[1][2] = <<"n","'","a","n">>
  /\ cleanIn.rows[2][1] = <<"'","x","'">>
  /\ cleanOut[1].rows = << << <<"x">>, <<"y">> >> >>

(***************************************************************************)
(* Properties of the deposit of the harvest.                               *)
(***************************************************************************)
\* the attachments of the harvest that came to the deposit
Deposits == {i \in 1..Len(harvestLog) : harvestLog[i].kind = "deposit"}
\* the name under which the deposit files an attachment
DepositName(i) == FinalFilename(harvestLog[i].message_id, harvestLog[i].filename)

\* C30: after a harvest in which no remote call failed, every spreadsheet
\* attachment of every message is in the file store: it was uploaded, or it
\* was skipped for its own earlier deposit, so that the store holds a file
\* for each attachment, also for attachments of one message whose file names
\* are the same after sanitizing.
C30_EveryAttachmentDeposited ==
  (pc = "gmailDone" /\ faults = 0) =>
     \A i \in Deposits :
        /\ harvestLog[i].outcome \in {"uploaded", "skipped"}
        /\ Cardinality({j \in Deposits : DepositName(j) = DepositName(i)})
             <= Cardinality({n \in 1..Len(uploads) : uploads[n].name = DepositName(i)})

(***************************************************************************)
(* Properties of the folders of the harvest.                               *)
(***************************************************************************)
RECURSIVE UnderRoot(_)
\* the folder of the id is the destination root or below it
UnderRoot(id) ==
  IF id = RootId THEN TRUE
  ELSE IF id = NoId \/ id > Len(folders) THEN FALSE
  ELSE UnderRoot(folders[id].parent)

\* C31: every folder the harvest created and every file it uploaded is below
\* the destination root, also after a call of _create_drive_folder failed and
\* its empty id went on as the parent of the next folder or of the upload.
C31_NothingOutsideTheRoot ==
  /\ \A i \in 2..Len(folders) : UnderRoot(folders[i].parent)
  /\ \A n \in 1..Len(uploads) : UnderRoot(uploads[n].parent)

\* the folders of a name under a parent
FoldersOfPair(parent, name) ==
  {i \in 1..Len(folders) : folders[i].name = name /\ folders[i].parent = parent}
\* no two folders have the same parent and the same name
OneFolderPerPair ==
  \A i, j \in 1..Len(folders) :
     (folders[i].name = folders[j].name /\ folders[i].parent = folders[j].parent) => i = j
\* a step that is a call of _create_drive_folder for the name under the
\* parent and leaves the id returned: what the step does to the folders
FolderCallStep(parent, name, id) ==
  /\ \/ folders' = folders
     \/ /\ folders' = Append(folders, Folder(name, parent))
        /\ id = Len(folders')
  /\ FoldersOfPair(parent, name) # {} =>
       /\ folders' = folders
       /\ id \in FoldersOfPair(parent, name)
\* the calls of _create_drive_folder of the harvest
FolderCallSteps ==
  /\ pc = "base" => FolderCallStep(RootId, BaseFolderName, baseFolderId')
  /\ pc \in {"sender", "search", "type"} =>
       FolderCallStep(att.folder, FolderNameAt(pc), att'.folder)
  /\ pc \notin {"base", "sender", "search", "type"} => folders' = folders

\* C32: in the calls of _create_drive_folder of one harvest
\* after the other, no two folders ever have the same parent and name, and
\* every call for a pair whose folder exists returns the id of that folder
\* and creates nothing.
C32_ExistingFolderIsReturned ==
  [](OneFolderPerPair) /\ [][FolderCallSteps]_vars

(***************************************************************************)
(* Properties of the walk over the payload of a message.                   *)
(***************************************************************************)
RECURSIVE AttachmentNames(_)
\* the file names of the nodes of a tree that have no parts and declare a
\* filename and an attachmentId, from left to right
AttachmentNames(node) ==
  IF node.has_parts
  THEN LET F[i \in 0..Len(node.parts)] ==
             IF i = 0 THEN <<>> ELSE F[i - 1] \o AttachmentNames(node.parts[i])
       IN F[Len(node.parts)]
  ELSE IF node.filename # <<>> /\ node.attachmentId THEN <<node.filename>> ELSE <<>>
\* the file names of the nodes the walk has treated as attachments, in order
HandledNames ==
  LET of == SelectSeq(harvestLog,
                      LAMBDA e : e.kind = "leaf" /\ e.outcome # "no_attachment")
  IN [i \in 1..Len(of) |-> of[i].filename]
\* the walk of the message has gone through its parts
WalkEnded == pc = "part" /\ partIdx > Len(parts)
SpreadsheetNames(names) == SelectSeq(names, IsExcelName)

\* C33: the walk of a payload tree comes to its end; it has then treated as
\* an attachment each node without parts that declares a filename and an
\* attachmentId, once and in order, and no other node, a node with parts
\* never; and the counts it returns are the sums over these nodes: total the
\* spreadsheets among them, each of which is uploaded, skipped or failed.
C33_WalkHandlesEachAttachmentLeafOnce ==
  /\ [](WalkEnded =>
          /\ HandledNames = AttachmentNames(mailbox[1].payload)
          /\ attStats.total = Len(SpreadsheetNames(HandledNames))
          /\ attStats.total = attStats.uploaded + attStats.skipped + attStats.failed
          /\ attStats.uploaded = Outcomes("uploaded")
          /\ attStats.skipped = Outcomes("skipped")
          /\ attStats.failed = Outcomes("download_failed") + Outcomes("upload_failed"))
  /\ (pc = "part") ~> WalkEnded

C33_Witness ==
  /\ WalkEnded
  /\ \E i \in 1..Len(mailbox[1].payload.parts) :
        /\ mailbox[1].payload.parts[i].has_parts
        /\ mailbox[1].payload.parts[i].filename # <<>>
        /\ mailbox[1].payload.parts[i].parts # <<>>
  /\ Len(HandledNames) = 2
  /\ attStats.total = 2
  /\ attStats.uploaded = 1
  /\ attStats.skipped = 1

(***************************************************************************)
(* The accounting of the ingestion stage.                                  *)
(***************************************************************************)
\* the ingestion stage has returned with success
ExcelReturnedSuccess == excelResult.returned /\ excelResult.success

\* C34: when process_excel_workflow has returned with success, files_found =
\* files_skipped + files_processed + files_failed, whether it returned for
\* want of files, for want of new files, or after the loop over the new files.
C34_EveryFileCountedOnce ==
  ExcelReturnedSuccess =>
    /\ excelSummary.files_found = Len(allFiles)
    /\ excelSummary.files_found =
         excelSummary.files_skipped + excelSummary.files_processed
           + excelSummary.files_failed
    /\ excelSummary.files_skipped = Len(allFiles) - Len(newFiles)
    /\ excelSummary.files_processed + excelSummary.files_failed = Len(newFiles)

\* a return after the loop with files skipped, processed and failed
C34_Witness ==
  /\ ExcelReturnedSuccess
  /\ readCalls # <<>>
  /\ excelSummary.files_skipped > 0
  /\ excelSummary.files_processed > 0
  /\ excelSummary.files_failed > 0

====
